---- MODULE Spec2Model ----
(***************************************************************************)
(* Bubble Tab Manager: the identity registry, the grouping engine and the *)
(* durable group-mapping store, modelled as a state machine.               *)
(*                                                                         *)
(* The host (tabs, tab groups, their events) is the environment.  Every    *)
(* handler of the service worker is an action; the planning pass and the   *)
(* identity-change move are split at the awaits between which other        *)
(* handlers are observed to interleave.                                    *)
(***************************************************************************)
EXTENDS Integers, Sequences, FiniteSets, TLC

\* ------------------------------------------------------------------ bounds
MaxTabs == 2
MaxGroups == 3
MaxEvents == 2

\* the tabs open when the service worker starts, and one that opens later
EarlyTabs == 1..MaxTabs
LateTab == MaxTabs + 1
TabIds == EarlyTabs \cup {LateTab}
GroupIds == 1..MaxGroups

\* chrome.tabGroups.TAB_GROUP_ID_NONE
NoGroup == -1

Windows == {1, 2}
\* the window new tabs open in
MainWindow == CHOOSE w \in Windows : \A x \in Windows : w <= x

\* ------------------------------------------------------------------ urls
\* A URL is kept as the parts the identity parser reads: the site it is on
\* (the editor host with path /page, an <app>.bubbleapps.io preview host, or
\* anything else), the app id it carries, the version it carries ("" when
\* the version parameter or the /version-<id> path segment is absent), its
\* hostname, and whether its query string has debug_mode=true.
Closed == [site |-> "closed", id |-> "", version |-> "", host |-> "", debug |-> FALSE]
OtherUrl == [site |-> "other", id |-> "", version |-> "", host |-> "example.com",
             debug |-> FALSE]
Urls ==
    { [site |-> "editor", id |-> "acme", version |-> "dev", host |-> "bubble.io",
       debug |-> FALSE],
      [site |-> "editor", id |-> "acme", version |-> "", host |-> "bubble.io",
       debug |-> FALSE],
      OtherUrl }

NoIdentity == [appId |-> "", versionId |-> "", type |-> "", hostname |-> ""]

parseEditorIdentity(url) ==
    IF url.site # "editor" \/ url.id = "" THEN NoIdentity
    ELSE [appId |-> url.id,
          versionId |-> IF url.version = "" THEN "test" ELSE url.version,
          type |-> "editor", hostname |-> url.host]

parsePreviewIdentity(url) ==
    IF url.site # "preview" THEN NoIdentity
    ELSE [appId |-> url.id,
          versionId |-> IF url.version = "" THEN "live" ELSE url.version,
          type |-> "preview", hostname |-> url.host]

parseTabIdentitySync(url) ==
    IF parseEditorIdentity(url) # NoIdentity THEN parseEditorIdentity(url)
    ELSE parsePreviewIdentity(url)

\* The (appId, versionId) pairs the URLs of the model resolve to.
Branches == {<<"acme", v>> : v \in {"dev", "test", "live"}}

\* <appId>.bubbleapps.io
CanonicalHost(appId) == IF appId = "acme" THEN "acme.bubbleapps.io" ELSE "beta.bubbleapps.io"

IsBubbleAppsHost(hostname) == hostname \in {"acme.bubbleapps.io", "beta.bubbleapps.io"}

\* findAppByHostname: the app whose baseUrls (bus) hold the hostname; the
\* store of the model holds the record of one app
findAppByHostname(bus, hostname) ==
    IF \E i \in 1..Len(bus) : bus[i] = hostname THEN "acme" ELSE ""

\* findExistingAppForVersion: the app of a stored branch with this version id
findExistingAppForVersion(brs, versionId) ==
    IF \E b \in DOMAIN brs : b[2] = versionId /\ brs[b].exists
    THEN (CHOOSE b \in DOMAIN brs : b[2] = versionId /\ brs[b].exists)[1]
    ELSE ""

\* parseCustomDomainIdentity(url), reading the baseUrls bus and the branches brs
parseCustomDomainIdentity(url, bus, brs) ==
    IF url.site # "other" THEN NoIdentity
    ELSE LET versionId == IF url.version = "" THEN "live" ELSE url.version
             byHost == findAppByHostname(bus, url.host)
             appId == IF byHost # "" THEN byHost
                      ELSE IF url.debug /\ url.version # ""
                           THEN findExistingAppForVersion(brs, versionId)
                           ELSE ""
         IN IF appId = "" THEN NoIdentity
            ELSE [appId |-> appId, versionId |-> versionId, type |-> "preview",
                  hostname |-> url.host]

\* parseTabIdentity(url): editor, then standard preview, then custom domain
parseTabIdentity(url, bus, brs) ==
    IF parseTabIdentitySync(url) # NoIdentity THEN parseTabIdentitySync(url)
    ELSE parseCustomDomainIdentity(url, bus, brs)

\* ------------------------------------------------------------------ colors, titles
Colors == {"grey", "green", "blue"}

RESERVED_COLORS == [live |-> "green", test |-> "blue"]

\* no version has a reserved color
getReservedColorNone(versionId) == ""

getReservedColor(versionId) ==
    IF versionId \in DOMAIN RESERVED_COLORS THEN RESERVED_COLORS[versionId] ELSE ""

\* A title is a sequence of tokens: <<label>> or <<label, "|", appId>>; the
\* empty title of a group the host has just created is <<>>.
UserTitle == <<"Mine">>
ScrapedName == "main"

Capitalized(versionId) ==
    CASE versionId = "live" -> "Live"
      [] versionId = "test" -> "Test"
      [] OTHER -> versionId

\* a version id longer than VERSION_ID.MAX_DISPLAY_LENGTH made of hex digits,
\* and its first eight characters followed by "..."
OpaqueId == "0123456789abcdef0123456789abcdef"
OpaqueIdShort == "01234567..."

\* true for the empty id and for a long hex token
shouldCleanVersionId(versionId) == versionId \in {"", OpaqueId}

\* the empty id, a long hex token, and any other id (first letter of each
\* word in upper case; the ids of the model are single words)
cleanVersionIdForDisplay(versionId) ==
    CASE versionId = "" -> "Unknown Branch"
      [] versionId = OpaqueId -> OpaqueIdShort
      [] versionId = "dev" -> "Dev"
      [] OTHER -> Capitalized(versionId)

\* ------------------------------------------------------------------ state
VARIABLES
    \* host: tabs
    tabUrl,         \* TabIds -> Urls \cup {Closed}
    tabWin,         \* TabIds -> Windows
    tabPinned,      \* TabIds -> BOOLEAN
    tabGroup,       \* TabIds -> GroupIds \cup {NoGroup}
    \* host: tab groups
    groups,         \* the group ids that exist
    usedGroupIds,   \* the group ids the host has handed out (never reused)
    grpWin, grpTitle, grpColor,
    removedEvents,  \* tabGroups.onRemoved events not yet handled
    \* registry (in memory)
    tabIndex,       \* sequence of registry entries, in Map insertion order
    \* chrome.storage.local
    groupMappings,  \* GroupIds -> mapping
    branches,       \* Branches -> branch data
    extensionGroups,
    groupingEnabled,
    \* grouping engine (in memory)
    manualHolds,    \* TabIds -> hold
    internalOps,    \* group ids g with the marker update-group-<g>
    debounceTimer,  \* a planning pass is scheduled
    pendingChange,  \* TabIds -> identity handleTabIdentityChange was called with
    \* the running engine task (planning pass or identity-change move)
    pc, kind, buckets, bi, gid, chg,
    \* observation
    calls,          \* host mutations issued by the current / last task
    obs,            \* flags about the current / last task
    events,         \* environment events so far
    home,           \* TabIds -> the group a tab sat in when it last reloaded
                    \* its identity, NoGroup once it left that identity
    \* chrome.storage.local: the app record
    baseUrls,       \* the baseUrls array of the app ("" entries never occur)
    urlLastSeen,    \* the hostnames with a urlLastSeen stamp, oldest first
    \* the function under study and its arguments, in the specifications
    \* that apply one function to drawn inputs
    probe,
    \* a planning pass suspended at an await while another one runs
    parked

hostVars == <<tabUrl, tabWin, tabPinned, tabGroup, groups, usedGroupIds,
              grpWin, grpTitle, grpColor, removedEvents>>
storeVars == <<groupMappings, branches, extensionGroups, groupingEnabled>>
engineVars == <<manualHolds, internalOps, debounceTimer, pendingChange>>
taskVars == <<pc, kind, buckets, bi, gid, chg>>
histVars == <<calls, obs, events, home>>
auxVars == <<baseUrls, urlLastSeen, probe, parked>>
vars == <<hostVars, tabIndex, storeVars, engineVars, taskVars, histVars, auxVars>>

OpenTabs == {t \in TabIds : tabUrl[t] # Closed}

\* ------------------------------------------------------------------ sequences
RECURSIVE SetToSeq(_)
\* the elements of a set of integers, ascending
SetToSeq(S) ==
    IF S = {} THEN <<>>
    ELSE LET m == CHOOSE x \in S : \A y \in S : x <= y
         IN <<m>> \o SetToSeq(S \ {m})

RECURSIVE Dedup(_)
\* the elements of a sequence in order of first occurrence
Dedup(s) ==
    IF s = <<>> THEN <<>>
    ELSE <<Head(s)>> \o SelectSeq(Dedup(Tail(s)), LAMBDA k : k # Head(s))

Range(s) == {s[i] : i \in 1..Len(s)}

\* ------------------------------------------------------------------ registry
NoEntry == [tabId |-> 0, windowId |-> 0, appId |-> "", versionId |-> "", type |-> ""]

getIdentity(tabId) ==
    IF \E i \in 1..Len(tabIndex) : tabIndex[i].tabId = tabId
    THEN tabIndex[CHOOSE i \in 1..Len(tabIndex) : tabIndex[i].tabId = tabId]
    ELSE NoEntry

removeTab(index, tabId) == SelectSeq(index, LAMBDA e : e.tabId # tabId)

setTabIdentity(index, tabId, windowId, identity) ==
    Append(removeTab(index, tabId),
           [tabId |-> tabId, windowId |-> windowId, appId |-> identity.appId,
            versionId |-> identity.versionId, type |-> identity.type])

getWindowTabs(windowId) == SelectSeq(tabIndex, LAMBDA e : e.windowId = windowId)

getWindowApps(windowId) == {e.appId : e \in {x \in Range(tabIndex) : x.windowId = windowId}}

\* getStats().tabsByWindow: the windows that hold registered tabs; Object.entries
\* lists its integer keys in ascending order
StatsWindows == SetToSeq({e.windowId : e \in Range(tabIndex)})

\* ------------------------------------------------------------------ storage
NoBranch == [exists |-> FALSE, name |-> "", displayName |-> <<>>, color |-> ""]
NoMapping == [appId |-> "", versionId |-> "", windowId |-> 0, fresh |-> FALSE]
NoHold == [appId |-> "", versionId |-> ""]

getBranch(appId, versionId) == branches[<<appId, versionId>>]

createDefaultBranch == [exists |-> TRUE, name |-> "", displayName |-> <<>>, color |-> ""]

\* storeGroupMapping: lastSeen is now
storeGroupMapping(maps, groupId, appId, versionId, windowId) ==
    [maps EXCEPT ![groupId] = [appId |-> appId, versionId |-> versionId,
                               windowId |-> windowId, fresh |-> TRUE]]

touchGroupMapping(maps, groupId) ==
    IF maps[groupId] # NoMapping THEN [maps EXCEPT ![groupId].fresh = TRUE] ELSE maps

removeGroupMapping(maps, groupId) == [maps EXCEPT ![groupId] = NoMapping]

\* the group ids mapped to the identity, in Object.entries order (ascending
\* keys); windowId = 0 stands for the omitted optional parameter
findGroupsForIdentity(maps, appId, versionId, windowId) ==
    SetToSeq({g \in GroupIds : /\ maps[g] # NoMapping
                               /\ maps[g].appId = appId
                               /\ maps[g].versionId = versionId
                               /\ (windowId = 0 \/ maps[g].windowId = windowId)})

\* ------------------------------------------------------------------ engine: pure parts
\* a variant of hasManualHold below that counts a hold taken for any identity
hasAnyManualHold(tabId, appId, versionId) == manualHolds[tabId] # NoHold

hasManualHold(tabId, appId, versionId) ==
    /\ manualHolds[tabId] # NoHold
    /\ manualHolds[tabId].appId = appId
    /\ manualHolds[tabId].versionId = versionId

\* a variant of isMultiAppWindow below that counts the apps of every window
isMultiAppAnyWindow(windowId) == Cardinality({e.appId : e \in Range(tabIndex)}) > 1

isMultiAppWindow(windowId) == Cardinality(getWindowApps(windowId)) > 1

\* a variant of computeGroupTitle below in which the label of a reserved
\* version is chosen before the display name is looked at
computeGroupTitleReservedFirst(windowId, appId, versionId, includeDisplayName, branch) ==
    IF getReservedColor(versionId) = "" /\ includeDisplayName /\ branch.displayName # <<>>
    THEN branch.displayName
    ELSE LET label0 == IF getReservedColor(versionId) # "" THEN Capitalized(versionId)
                       ELSE IF branch.name # "" THEN branch.name
                       ELSE versionId
             label == IF label0 = versionId /\ shouldCleanVersionId(versionId)
                      THEN cleanVersionIdForDisplay(versionId)
                      ELSE label0
         IN IF isMultiAppWindow(windowId) THEN <<label, "|", appId>> ELSE <<label>>

\* computeGroupTitle(bucket, includeDisplayName, branch)
computeGroupTitle(windowId, appId, versionId, includeDisplayName, branch) ==
    IF includeDisplayName /\ branch.displayName # <<>>
    THEN branch.displayName
    ELSE LET label0 == IF getReservedColor(versionId) # "" THEN Capitalized(versionId)
                       ELSE IF branch.name # "" THEN branch.name
                       ELSE versionId
             label == IF label0 = versionId /\ shouldCleanVersionId(versionId)
                      THEN cleanVersionIdForDisplay(versionId)
                      ELSE label0
         IN IF isMultiAppWindow(windowId) THEN <<label, "|", appId>> ELSE <<label>>

\* prepareGroupUpdates(group, title, color): color = "" stands for undefined
prepareGroupUpdates(groupId, title, color) ==
    [title |-> IF grpTitle[groupId] # title THEN title ELSE <<>>,
     hasTitle |-> grpTitle[groupId] # title,
     color |-> IF color # "" /\ grpColor[groupId] # color THEN color ELSE ""]

NoIdent == [appId |-> "", versionId |-> "", windowId |-> 0]

\* a variant of findMajorityIdentity below in which the key seen last wins a tie
findMajorityIdentityLastTie(identities) ==
    IF identities = <<>> THEN NoIdent
    ELSE LET keyOf(x) == <<x.appId, x.versionId>>
             keys == Dedup([i \in 1..Len(identities) |-> keyOf(identities[i])])
             count(k) == Cardinality({i \in 1..Len(identities) : keyOf(identities[i]) = k})
             best == CHOOSE i \in 1..Len(keys) :
                        /\ \A j \in 1..Len(keys) : count(keys[j]) <= count(keys[i])
                        /\ \A j \in (i + 1)..Len(keys) : count(keys[j]) < count(keys[i])
             last == CHOOSE i \in 1..Len(identities) :
                        /\ keyOf(identities[i]) = keys[best]
                        /\ \A j \in (i + 1)..Len(identities) : keyOf(identities[j]) # keys[best]
         IN identities[last]

\* findMajorityIdentity: the key that first reaches the highest count, in
\* iteration order of the count Map; the details are those of the last
\* identity seen with that key
findMajorityIdentity(identities) ==
    IF identities = <<>> THEN NoIdent
    ELSE LET keyOf(x) == <<x.appId, x.versionId>>
             keys == Dedup([i \in 1..Len(identities) |-> keyOf(identities[i])])
             count(k) == Cardinality({i \in 1..Len(identities) : keyOf(identities[i]) = k})
             best == CHOOSE i \in 1..Len(keys) :
                        /\ \A j \in 1..Len(keys) : count(keys[j]) <= count(keys[i])
                        /\ \A j \in 1..(i - 1) : count(keys[j]) < count(keys[i])
             last == CHOOSE i \in 1..Len(identities) :
                        /\ keyOf(identities[i]) = keys[best]
                        /\ \A j \in (i + 1)..Len(identities) : keyOf(identities[j]) # keys[best]
         IN identities[last]

\* chrome.tabs.query({groupId}): the tabs of the group, in tab-strip order
\* (tabs sit in the strip in the order of their ids)
TabsInGroup(groupId) == SetToSeq({t \in OpenTabs : tabGroup[t] = groupId})

\* chrome.tabGroups.query({windowId}), in ascending id order
GroupsInWindow(windowId) == SetToSeq({g \in groups : grpWin[g] = windowId})

\* getGroupIdentity(groupId), reading and writing the mappings `maps`:
\* [id |-> the identity or NoIdent, maps |-> the mappings afterwards]
getGroupIdentity(maps, groupId) ==
    LET members == TabsInGroup(groupId)
        registered == SelectSeq(members, LAMBDA t : getIdentity(t) # NoEntry)
        validIdentities == [i \in 1..Len(registered) |->
                               [appId |-> getIdentity(registered[i]).appId,
                                versionId |-> getIdentity(registered[i]).versionId,
                                windowId |-> tabWin[registered[i]]]]
    IN IF validIdentities = <<>>
       THEN IF /\ maps[groupId] # NoMapping
               /\ groupId \in groups
               /\ grpWin[groupId] = maps[groupId].windowId
            THEN [id |-> [appId |-> maps[groupId].appId,
                          versionId |-> maps[groupId].versionId,
                          windowId |-> maps[groupId].windowId],
                  maps |-> touchGroupMapping(maps, groupId)]
            ELSE [id |-> NoIdent, maps |-> maps]
       ELSE LET identity == findMajorityIdentity(validIdentities)
            IN [id |-> identity,
                maps |-> storeGroupMapping(maps, groupId, identity.appId,
                                           identity.versionId, identity.windowId)]

RECURSIVE FirstValidCandidate(_, _)
\* findGroupByIdentity, first try: the first candidate that exists in the window
FirstValidCandidate(candidates, windowId) ==
    IF candidates = <<>> THEN NoGroup
    ELSE IF Head(candidates) \in groups /\ grpWin[Head(candidates)] = windowId
         THEN Head(candidates)
         ELSE FirstValidCandidate(Tail(candidates), windowId)

RECURSIVE RegistryLookup(_, _, _, _)
\* findGroupByIdentity, fallback: the first group of the window whose identity
\* (getGroupIdentity) is the wanted one; every group looked at on the way gets
\* its mapping stored
RegistryLookup(maps, gs, appId, versionId) ==
    IF gs = <<>> THEN [gid |-> NoGroup, maps |-> maps]
    ELSE LET r == getGroupIdentity(maps, Head(gs))
         IN IF r.id.appId = appId /\ r.id.versionId = versionId
            THEN [gid |-> Head(gs),
                  maps |-> storeGroupMapping(r.maps, Head(gs), appId, versionId,
                                             grpWin[Head(gs)])]
            ELSE RegistryLookup(r.maps, Tail(gs), appId, versionId)

\* a variant of findGroupByIdentity below that consults the stored mappings
\* only and never scans the live groups of the window
findGroupByIdentityStoredOnly(maps, windowId, appId, versionId) ==
    LET g == FirstValidCandidate(findGroupsForIdentity(maps, appId, versionId, windowId),
                                 windowId)
    IN IF g # NoGroup
       THEN [gid |-> g, maps |-> touchGroupMapping(maps, g)]
       ELSE [gid |-> NoGroup, maps |-> maps]

\* findGroupByIdentity(windowId, appId, versionId):
\* [gid |-> the group or NoGroup, maps |-> the mappings afterwards]
findGroupByIdentity(maps, windowId, appId, versionId) ==
    LET g == FirstValidCandidate(findGroupsForIdentity(maps, appId, versionId, windowId),
                                 windowId)
    IN IF g # NoGroup
       THEN [gid |-> g, maps |-> touchGroupMapping(maps, g)]
       ELSE RegistryLookup(maps, GroupsInWindow(windowId), appId, versionId)

\* bucketTabsByIdentity: per window (ascending), the registered tabs that are
\* neither pinned nor held, keyed by appId:versionId in order of first
\* occurrence; keys left without a tab give no bucket
WindowBuckets(windowId) ==
    LET entries == getWindowTabs(windowId)
        keys == Dedup([i \in 1..Len(entries) |-> <<entries[i].appId, entries[i].versionId>>])
        tabsOf(k) ==
            LET mine == SelectSeq(entries, LAMBDA e :
                            /\ <<e.appId, e.versionId>> = k
                            /\ tabUrl[e.tabId] # Closed
                            /\ ~tabPinned[e.tabId]
                            /\ ~hasManualHold(e.tabId, e.appId, e.versionId))
            IN [i \in 1..Len(mine) |-> mine[i].tabId]
        all == [i \in 1..Len(keys) |->
                   [windowId |-> windowId, appId |-> keys[i][1], versionId |-> keys[i][2],
                    tabs |-> tabsOf(keys[i])]]
    IN SelectSeq(all, LAMBDA b : b.tabs # <<>>)

RECURSIVE BucketsOf(_)
BucketsOf(ws) ==
    IF ws = <<>> THEN <<>> ELSE WindowBuckets(Head(ws)) \o BucketsOf(Tail(ws))

bucketTabsByIdentity == BucketsOf(StatsWindows)

\* ------------------------------------------------------------------ host
\* the smallest group id the host has not handed out yet
NextGroupId == CHOOSE g \in GroupIds \ usedGroupIds : \A h \in GroupIds \ usedGroupIds : g <= h

\* the groups that still hold an open tab
Alive(gs, tg, tu) == {g \in gs : \E t \in TabIds : tu[t] # Closed /\ tg[t] = g}

\* The host after tab membership became tg (tab urls tu): a group left without
\* a tab is removed and its removal event is queued.
SettleGroups(gs, tg, tu, gw, gt, gc) ==
    LET alive == Alive(gs, tg, tu)
    IN /\ tabGroup' = tg
       /\ groups' = alive
       /\ removedEvents' = removedEvents \cup (gs \ alive)
       /\ grpWin' = [g \in GroupIds |-> IF g \in alive THEN gw[g] ELSE 0]
       /\ grpTitle' = [g \in GroupIds |-> IF g \in alive THEN gt[g] ELSE <<>>]
       /\ grpColor' = [g \in GroupIds |-> IF g \in alive THEN gc[g] ELSE "grey"]

\* chrome.tabs.group({tabIds, groupId}) rejects when a tab or the group is gone
GroupCallFails(tabIds, groupId) ==
    \/ \E t \in tabIds : tabUrl[t] = Closed
    \/ groupId # NoGroup /\ groupId \notin groups

\* ------------------------------------------------------------------ observation
NoChg == [tab |-> 0, groupId |-> NoGroup, pinned |-> FALSE]
NoProbe == [fn |-> "none"]
NoTask == [pc |-> "idle"]
NoObs == [doneNow |-> FALSE, failed |-> FALSE, disturbed |-> FALSE,
          afterPass |-> FALSE, second |-> FALSE, freshCreate |-> FALSE,
          echoed |-> FALSE, renamed |-> FALSE]

\* an environment event happened
Disturb(o) == [o EXCEPT !.doneNow = FALSE, !.disturbed = TRUE,
                        !.afterPass = FALSE, !.second = FALSE]
\* an engine step that is not the end of a pass
Step(o) == [o EXCEPT !.doneNow = FALSE]
\* the last step of a planning pass
PassDone(o) == [o EXCEPT !.doneNow = TRUE, !.afterPass = ~o.failed /\ ~o.disturbed]

HostCall(by, tabIds, groupId, title, color) ==
    [by |-> by, tabs |-> tabIds, gid |-> groupId, title |-> title, color |-> color]

\* ------------------------------------------------------------------ service worker
\* the cap on the baseUrls of an app
MaxBaseUrls == 12

Without(s, x) == SelectSeq(s, LAMBDA y : y # x)
Has(s, x) == \E i \in 1..Len(s) : s[i] = x
LastN(s, n) == IF Len(s) <= n THEN s ELSE SubSeq(s, Len(s) - n + 1, Len(s))

\* Storage.addBaseUrl(appId, hostname) on the baseUrls bus of the app: the
\* canonical host is put first when missing, a known hostname moves to the
\* end, a new one is appended, and beyond the cap the canonical host and the
\* last eleven others stay
addBaseUrl(bus, appId, hostname) ==
    LET canonical == CanonicalHost(appId)
        base == IF Has(bus, canonical) THEN bus ELSE <<canonical>> \o bus
    IN IF Has(base, hostname) THEN Append(Without(base, hostname), hostname)
       ELSE LET all == Append(base, hostname)
            IN IF Len(all) > MaxBaseUrls
               THEN SelectSeq(all, LAMBDA u : u = canonical) \o
                    LastN(Without(all, canonical), MaxBaseUrls - 1)
               ELSE all

\* updateAppStorage(identity) on the app record st = [baseUrls, urlLastSeen]:
\* the canonical host and the hostname of the identity join the baseUrls, the
\* hostname is stamped as seen now, and beyond the cap the canonical host and
\* the eleven others seen last stay, in the order of their stamps (a hostname
\* without a stamp counts as seen at time 0)
updateAppStorage(st, identity) ==
    LET bubbleHost == CanonicalHost(identity.appId)
        hostname == identity.hostname
        withHost == IF Has(st.baseUrls, bubbleHost) THEN st.baseUrls
                    ELSE Append(st.baseUrls, bubbleHost)
        urlArray == IF Has(withHost, hostname) THEN withHost ELSE Append(withHost, hostname)
        seen == Append(Without(st.urlLastSeen, hostname), hostname)
        others == Without(urlArray, bubbleHost)
        sortedUrls == SelectSeq(others, LAMBDA u : ~Has(seen, u)) \o
                      SelectSeq(seen, LAMBDA u : Has(others, u))
        finalUrls == <<bubbleHost>> \o LastN(sortedUrls, MaxBaseUrls - 1)
    IN IF Len(urlArray) > MaxBaseUrls
       THEN [baseUrls |-> finalUrls,
             urlLastSeen |-> SelectSeq(seen, LAMBDA u : Has(finalUrls, u))]
       ELSE [baseUrls |-> urlArray, urlLastSeen |-> seen]

\* isRecognizedCustomDomain(hostname)
isRecognizedCustomDomain(bus, hostname) == Has(bus, hostname)

\* updateBranchStorage: nothing for a preview identity on a hostname that is
\* neither *.bubbleapps.io nor in the baseUrls; otherwise a branch seen for
\* the first time is stored without a name, a display name or a color, and an
\* existing one only has its timestamp touched
updateBranchStorage(brs, identity, bus) ==
    IF /\ identity.type = "preview"
       /\ ~IsBubbleAppsHost(identity.hostname)
       /\ ~isRecognizedCustomDomain(bus, identity.hostname)
    THEN brs
    ELSE IF brs[<<identity.appId, identity.versionId>>].exists THEN brs
         ELSE [brs EXCEPT ![<<identity.appId, identity.versionId>>] = createDefaultBranch]

\* GroupingEngine.getGroupMapping(groupId): the mapping of the group
getGroupMapping(maps, groupId) == maps[groupId]

\* validateTabGroupForBaseUrl: the tab sits in a group mapped to the identity
validateTabGroupForBaseUrl(tabId, appId, versionId, maps) ==
    /\ tabGroup[tabId] # NoGroup
    /\ getGroupMapping(maps, tabGroup[tabId]) # NoMapping
    /\ getGroupMapping(maps, tabGroup[tabId]).appId = appId
    /\ getGroupMapping(maps, tabGroup[tabId]).versionId = versionId

\* validateAllRulesForBaseUrl: debug_mode=true, a /version-<id> path segment,
\* a stored branch, and the tab in the group of the identity
validateAllRulesForBaseUrl(url, tabId, appId, versionId, brs, maps) ==
    /\ url.debug
    /\ url.version # ""
    /\ brs[<<appId, versionId>>].exists
    /\ validateTabGroupForBaseUrl(tabId, appId, versionId, maps)

\* the identity processTabIdentity finds for the URL, reading the store
IdentityOf(url) == parseTabIdentity(url, baseUrls, branches)

\* processTabIdentity on the registry: a URL without an identity returns early
\* and leaves the registry as it is
processTabIdentity(index, tabId, windowId, url) ==
    IF IdentityOf(url) = NoIdentity THEN index
    ELSE setTabIdentity(index, tabId, windowId, IdentityOf(url))

\* processTabIdentity on the store st = [baseUrls, urlLastSeen, branches],
\* for the identity found: addBaseUrl when the custom-domain rules pass, then
\* updateAppStorage, then updateBranchStorage
StoreAfterIdentity(st, tabId, url, identity) ==
    LET custom == /\ identity.type = "preview"
                  /\ identity.versionId # "live"
                  /\ ~IsBubbleAppsHost(identity.hostname)
        passes == validateAllRulesForBaseUrl(url, tabId, identity.appId,
                                             identity.versionId, st.branches, groupMappings)
        added == IF custom /\ passes
                 THEN addBaseUrl(st.baseUrls, identity.appId, identity.hostname)
                 ELSE st.baseUrls
        app == updateAppStorage([baseUrls |-> added, urlLastSeen |-> st.urlLastSeen],
                                identity)
    IN [baseUrls |-> app.baseUrls, urlLastSeen |-> app.urlLastSeen,
        branches |-> updateBranchStorage(st.branches, identity, app.baseUrls)]

\* the store after processTabIdentity(tabId, windowId, url)
ProcessStore(tabId, url) ==
    LET st == [baseUrls |-> baseUrls, urlLastSeen |-> urlLastSeen, branches |-> branches]
    IN IF IdentityOf(url) = NoIdentity THEN st
       ELSE StoreAfterIdentity(st, tabId, url, IdentityOf(url))

EntryOf(index, tabId) ==
    IF \E i \in 1..Len(index) : index[i].tabId = tabId
    THEN index[CHOOSE i \in 1..Len(index) : index[i].tabId = tabId]
    ELSE NoEntry

SameIdentity(e1, e2) == e1.appId = e2.appId /\ e1.versionId = e2.versionId

\* the group the tab is to be found in after reloading its identity
HomeAfter(t, old, new) ==
    IF /\ old # NoEntry
       /\ SameIdentity(old, new)
       /\ tabGroup[t] # NoGroup
       /\ groupMappings[tabGroup[t]] # NoMapping
       /\ SameIdentity(groupMappings[tabGroup[t]], new)
    THEN tabGroup[t]
    ELSE IF old # NoEntry /\ SameIdentity(old, new) THEN home[t] ELSE NoGroup

RECURSIVE ScanTabs(_, _, _)
\* scanExistingTabs: processTabIdentity for the open tabs ts in turn, on the
\* registry and the store sc = [index, baseUrls, urlLastSeen, branches]
ScanTabs(sc, ts, tu) ==
    IF ts = <<>> THEN sc
    ELSE LET url == tu[Head(ts)]
             identity == parseTabIdentity(url, sc.baseUrls, sc.branches)
             st == StoreAfterIdentity([baseUrls |-> sc.baseUrls,
                                       urlLastSeen |-> sc.urlLastSeen,
                                       branches |-> sc.branches],
                                      Head(ts), url, identity)
         IN IF identity = NoIdentity THEN ScanTabs(sc, Tail(ts), tu)
            ELSE ScanTabs([index |-> setTabIdentity(sc.index, Head(ts), MainWindow, identity),
                           baseUrls |-> st.baseUrls, urlLastSeen |-> st.urlLastSeen,
                           branches |-> st.branches],
                          Tail(ts), tu)

\* scanExistingTabs over the tabs showing tu, from the stored branches brs
scanExistingTabs(tu, brs) ==
    ScanTabs([index |-> <<>>, baseUrls |-> <<>>, urlLastSeen |-> <<>>, branches |-> brs],
             SetToSeq(TabIds), tu)

\* The service worker has started in a browser whose tabs show any of the
\* URLs: initialize has scanned them, no group exists yet, and its planning
\* pass is about to run.
\* the early tabs show URLs of the set us; the late tab is not open
Showing(us) ==
    {[t \in TabIds |-> IF t \in EarlyTabs THEN f[t] ELSE Closed] : f \in [EarlyTabs -> us]}

Init ==
    /\ tabUrl \in Showing(Urls)
    /\ tabWin = [t \in TabIds |-> MainWindow]
    /\ tabPinned = [t \in TabIds |-> FALSE]
    /\ tabGroup = [t \in TabIds |-> NoGroup]
    /\ groups = {}
    /\ usedGroupIds = {}
    /\ grpWin = [g \in GroupIds |-> 0]
    /\ grpTitle = [g \in GroupIds |-> <<>>]
    /\ grpColor = [g \in GroupIds |-> "grey"]
    /\ removedEvents = {}
    /\ groupMappings = [g \in GroupIds |-> NoMapping]
    /\ tabIndex = scanExistingTabs(tabUrl, [b \in Branches |-> NoBranch]).index
    /\ branches = scanExistingTabs(tabUrl, [b \in Branches |-> NoBranch]).branches
    /\ extensionGroups = {}
    /\ groupingEnabled = TRUE
    /\ manualHolds = [t \in TabIds |-> NoHold]
    /\ internalOps = {}
    /\ debounceTimer = FALSE
    /\ pendingChange = [t \in TabIds |-> NoHold]
    /\ pc = "idle"
    /\ kind = "none"
    /\ buckets = <<>>
    /\ bi = 0
    /\ gid = NoGroup
    /\ chg = NoChg
    /\ calls = {}
    /\ obs = NoObs
    /\ events = 0
    /\ home = [t \in TabIds |-> NoGroup]
    /\ baseUrls = scanExistingTabs(tabUrl, [b \in Branches |-> NoBranch]).baseUrls
    /\ urlLastSeen = scanExistingTabs(tabUrl, [b \in Branches |-> NoBranch]).urlLastSeen
    /\ probe = NoProbe
    /\ parked = NoTask

\* chrome.tabs.onUpdated with a URL: the tab loads url (a navigation or a reload)
TabUpdated(t, url) ==
    /\ LET old == getIdentity(t)
           index == processTabIdentity(tabIndex, t, tabWin[t], url)
           new == EntryOf(index, t)
           changed == old # NoEntry /\ new # NoEntry /\ ~SameIdentity(old, new)
           hold == manualHolds[t]
       IN /\ events < MaxEvents
          /\ tabUrl[t] # Closed
          /\ tabWin[t] # 0
          /\ tabUrl' = [tabUrl EXCEPT ![t] = url]
          /\ tabIndex' = index
          /\ branches' = ProcessStore(t, url).branches
          /\ baseUrls' = ProcessStore(t, url).baseUrls
          /\ urlLastSeen' = ProcessStore(t, url).urlLastSeen
          \* handleTabIdentityChange runs up to its first await at once
          /\ manualHolds' = IF changed /\ hold # NoHold /\ ~SameIdentity(hold, new)
                            THEN [manualHolds EXCEPT ![t] = NoHold] ELSE manualHolds
          /\ pendingChange' = IF changed
                              THEN [pendingChange EXCEPT ![t] =
                                       [appId |-> new.appId, versionId |-> new.versionId]]
                              ELSE pendingChange
          /\ debounceTimer' = (debounceTimer \/ new # NoEntry)
          /\ home' = [home EXCEPT ![t] = HomeAfter(t, old, new)]
          /\ obs' = Disturb(obs)
          /\ events' = events + 1
          /\ UNCHANGED <<tabWin, tabPinned, tabGroup, groups, usedGroupIds, grpWin, grpTitle,
                         grpColor, removedEvents, groupMappings, extensionGroups,
                         groupingEnabled, internalOps, taskVars, calls>>
    /\ UNCHANGED <<probe, parked>>

\* URL_CHANGED / CS_READY from the content script: the page changed its URL in
\* place and the message is handled before any tabs.onUpdated
UrlChangedMsg(t, url) ==
    /\ LET old == getIdentity(t)
           index == processTabIdentity(tabIndex, t, tabWin[t], url)
           new == EntryOf(index, t)
       IN /\ events < MaxEvents
          /\ tabUrl[t] # Closed
          /\ tabWin[t] # 0
          /\ url.site = "editor"
          /\ url # tabUrl[t]
          /\ tabUrl' = [tabUrl EXCEPT ![t] = url]
          /\ tabIndex' = index
          /\ branches' = ProcessStore(t, url).branches
          /\ baseUrls' = ProcessStore(t, url).baseUrls
          /\ urlLastSeen' = ProcessStore(t, url).urlLastSeen
          /\ home' = [home EXCEPT ![t] = HomeAfter(t, old, new)]
          /\ obs' = Disturb(obs)
          /\ events' = events + 1
          /\ UNCHANGED <<tabWin, tabPinned, tabGroup, groups, usedGroupIds, grpWin, grpTitle,
                         grpColor, removedEvents, groupMappings, extensionGroups,
                         groupingEnabled, engineVars, taskVars, calls>>
    /\ UNCHANGED <<probe, parked>>

\* chrome.tabs.onRemoved
CloseTab(t) ==
    /\ events < MaxEvents
    /\ tabUrl[t] # Closed
    /\ tabUrl' = [tabUrl EXCEPT ![t] = Closed]
    /\ SettleGroups(groups, [tabGroup EXCEPT ![t] = NoGroup], tabUrl',
                    grpWin, grpTitle, grpColor)
    /\ tabIndex' = removeTab(tabIndex, t)
    /\ debounceTimer' = TRUE
    /\ home' = [home EXCEPT ![t] = NoGroup]
    /\ obs' = Disturb(obs)
    /\ events' = events + 1
    /\ UNCHANGED <<tabWin, tabPinned, usedGroupIds, storeVars, manualHolds, internalOps,
                   pendingChange, taskVars, calls>>
    /\ UNCHANGED auxVars

\* chrome.tabs.onDetached: the tab leaves its window (and its group) on the
\* way to another window; windowId 0 stands for "in no window"
DetachTab(t) ==
    /\ events < MaxEvents
    /\ tabUrl[t] # Closed
    /\ tabWin[t] # 0
    /\ tabWin' = [tabWin EXCEPT ![t] = 0]
    /\ SettleGroups(groups, [tabGroup EXCEPT ![t] = NoGroup], tabUrl,
                    grpWin, grpTitle, grpColor)
    /\ tabIndex' = removeTab(tabIndex, t)
    /\ debounceTimer' = TRUE
    /\ home' = [home EXCEPT ![t] = NoGroup]
    /\ obs' = Disturb(obs)
    /\ events' = events + 1
    /\ UNCHANGED <<tabUrl, tabPinned, usedGroupIds, storeVars, manualHolds, internalOps,
                   pendingChange, taskVars, calls>>
    /\ UNCHANGED auxVars

\* chrome.tabs.onAttached: the tab arrives in window w
AttachTab(t, w) ==
    /\ tabUrl[t] # Closed
    /\ tabWin[t] = 0
    /\ tabWin' = [tabWin EXCEPT ![t] = w]
    /\ tabIndex' = processTabIdentity(tabIndex, t, w, tabUrl[t])
    /\ branches' = ProcessStore(t, tabUrl[t]).branches
    /\ baseUrls' = ProcessStore(t, tabUrl[t]).baseUrls
    /\ urlLastSeen' = ProcessStore(t, tabUrl[t]).urlLastSeen
    /\ debounceTimer' = TRUE
    /\ obs' = Disturb(obs)
    /\ UNCHANGED <<tabUrl, tabPinned, tabGroup, groups, usedGroupIds, grpWin, grpTitle,
                   grpColor, removedEvents, groupMappings, extensionGroups,
                   groupingEnabled, manualHolds, internalOps, pendingChange, taskVars,
                   calls, events, home>>
    /\ UNCHANGED <<probe, parked>>

\* the user pins a tab: the host takes it out of its group; no handler reacts
PinTab(t) ==
    /\ events < MaxEvents
    /\ tabUrl[t] # Closed
    /\ ~tabPinned[t]
    /\ tabPinned' = [tabPinned EXCEPT ![t] = TRUE]
    /\ SettleGroups(groups, [tabGroup EXCEPT ![t] = NoGroup], tabUrl,
                    grpWin, grpTitle, grpColor)
    /\ home' = [home EXCEPT ![t] = NoGroup]
    /\ obs' = Disturb(obs)
    /\ events' = events + 1
    /\ UNCHANGED <<tabUrl, tabWin, usedGroupIds, tabIndex, storeVars, engineVars,
                   taskVars, calls>>
    /\ UNCHANGED auxVars

\* chrome.tabs.onMoved: the user drags a tab, out of its group or not
UserMoveTab(t, out) ==
    /\ events < MaxEvents
    /\ tabUrl[t] # Closed
    /\ ~tabPinned[t]
    /\ out => tabGroup[t] # NoGroup
    /\ SettleGroups(groups, IF out THEN [tabGroup EXCEPT ![t] = NoGroup] ELSE tabGroup,
                    tabUrl, grpWin, grpTitle, grpColor)
    /\ manualHolds' = IF getIdentity(t) # NoEntry
                      THEN [manualHolds EXCEPT ![t] =
                               [appId |-> getIdentity(t).appId,
                                versionId |-> getIdentity(t).versionId]]
                      ELSE manualHolds
    /\ home' = [home EXCEPT ![t] = NoGroup]
    /\ obs' = Disturb(obs)
    /\ events' = events + 1
    /\ UNCHANGED <<tabUrl, tabWin, tabPinned, usedGroupIds, tabIndex, storeVars,
                   internalOps, debounceTimer, pendingChange, taskVars, calls>>
    /\ UNCHANGED auxVars

\* persistBranchColor(appId, versionId, color)
persistBranchColor(brs, appId, versionId, color) ==
    [brs EXCEPT ![<<appId, versionId>>] =
        [(IF @.exists THEN @ ELSE createDefaultBranch) EXCEPT !.color = color]]

\* a variant of handleUserGroupRename below that stores every title it is
\* handed, without comparing it to the automatic title
handleUserGroupRenameAlways(brs, identity, newTitle) ==
    IF identity = NoIdent THEN brs
    ELSE [brs EXCEPT ![<<identity.appId, identity.versionId>>] =
             [(IF @.exists THEN @ ELSE createDefaultBranch)
                 EXCEPT !.displayName = newTitle]]

\* handleUserGroupRename(groupId, newTitle), given the identity of the group
handleUserGroupRename(brs, identity, newTitle) ==
    IF identity = NoIdent THEN brs
    ELSE LET branch == brs[<<identity.appId, identity.versionId>>]
             automaticTitle == computeGroupTitle(identity.windowId, identity.appId,
                                                 identity.versionId, FALSE, branch)
         IN IF newTitle = automaticTitle THEN brs
            ELSE [brs EXCEPT ![<<identity.appId, identity.versionId>>] =
                     [(IF @.exists THEN @ ELSE createDefaultBranch)
                         EXCEPT !.displayName = newTitle]]

\* a variant of handleUserGroupColorChange below that keeps the reserved color
\* of a reserved version
handleUserGroupColorChangeKeepReserved(brs, identity, newColor) ==
    IF identity = NoIdent THEN brs
    ELSE IF getReservedColor(identity.versionId) \notin {"", newColor} THEN brs
    ELSE persistBranchColor(brs, identity.appId, identity.versionId, newColor)

\* handleUserGroupColorChange(groupId, newColor), given the identity of the group
handleUserGroupColorChange(brs, identity, newColor) ==
    IF identity = NoIdent THEN brs
    ELSE persistBranchColor(brs, identity.appId, identity.versionId, newColor)

\* a variant of isInternalOp below that never finds a marker
isInternalOpNever(g) == FALSE

\* isInternalOp(update-group-<g>)
isInternalOp(g) == g \in internalOps

\* chrome.tabGroups.onUpdated listener for a group that now shows title and color
GroupUpdatedListener(g, title, color) ==
    LET r1 == getGroupIdentity(groupMappings, g)
        r2 == getGroupIdentity(r1.maps, g)
        renamed == title # <<>>
        brs1 == IF renamed THEN handleUserGroupRename(branches, r1.id, title) ELSE branches
        id2 == IF renamed THEN r2.id ELSE r1.id
    IN IF isInternalOp(g)
       THEN UNCHANGED <<groupMappings, branches>>
       ELSE /\ groupMappings' = IF renamed THEN r2.maps ELSE r1.maps
            /\ branches' = handleUserGroupColorChange(brs1, id2, color)

\* the listener hands the title of group g to handleUserGroupRename, which
\* finds an identity for the group
RenameHandled(g, title) ==
    /\ g \notin internalOps
    /\ title # <<>>
    /\ getGroupIdentity(groupMappings, g).id # NoIdent

\* the automatic title handleUserGroupRename computes for group g
AutomaticTitle(g) ==
    LET identity == getGroupIdentity(groupMappings, g).id
    IN computeGroupTitle(identity.windowId, identity.appId, identity.versionId, FALSE,
                         branches[<<identity.appId, identity.versionId>>])

\* the user recolors or renames a group; the host reports it to the listener
UserEditGroup(g, title, color) ==
    /\ events < MaxEvents
    /\ g \in groups
    /\ \/ title = grpTitle[g] /\ color # grpColor[g]
       \/ title = UserTitle /\ title # grpTitle[g] /\ color = grpColor[g]
    /\ grpTitle' = [grpTitle EXCEPT ![g] = title]
    /\ grpColor' = [grpColor EXCEPT ![g] = color]
    /\ GroupUpdatedListener(g, title, color)
    /\ obs' = [Disturb(obs) EXCEPT
                  !.echoed = @ \/ (RenameHandled(g, title) /\ title = AutomaticTitle(g)),
                  !.renamed = @ \/ (RenameHandled(g, title) /\ title # AutomaticTitle(g))]
    /\ events' = events + 1
    /\ UNCHANGED <<tabUrl, tabWin, tabPinned, tabGroup, groups, usedGroupIds, grpWin,
                   removedEvents, tabIndex, extensionGroups, groupingEnabled, engineVars,
                   taskVars, calls, home>>
    /\ UNCHANGED auxVars

\* chrome.tabGroups.onRemoved listener: handleGroupRemoval
HandleGroupRemoved(g) ==
    /\ g \in removedEvents
    /\ removedEvents' = removedEvents \ {g}
    /\ extensionGroups' = extensionGroups \ {g}
    /\ groupMappings' = removeGroupMapping(groupMappings, g)
    /\ obs' = Disturb(obs)
    /\ UNCHANGED <<tabUrl, tabWin, tabPinned, tabGroup, groups, usedGroupIds, grpWin,
                   grpTitle, grpColor, tabIndex, branches, groupingEnabled, engineVars,
                   taskVars, calls, events, home>>
    /\ UNCHANGED auxVars

\* the timer set by markInternalOp(update-group-<g>) fires
ExpireInternalOp(g) ==
    /\ g \in internalOps
    /\ internalOps' = internalOps \ {g}
    /\ obs' = Step(obs)
    /\ UNCHANGED <<hostVars, tabIndex, storeVars, manualHolds, debounceTimer,
                   pendingChange, taskVars, calls, events, home>>
    /\ UNCHANGED auxVars

\* ------------------------------------------------------------------ title refresh
\* a variant of the color argument below: the reserved color of the version
refreshColorArgReserved(versionId) == getReservedColor(versionId)

\* the color argument updateGroupProperties hands to prepareGroupUpdates
refreshColorArg(versionId) == ""

\* updateGroupProperties(groupId, bucket, branchData): the update it sends to
\* the host; an empty record when the group is gone or nothing differs
updateGroupProperties(groupId, windowId, appId, versionId, brs) ==
    IF groupId \notin groups
    THEN [title |-> <<>>, hasTitle |-> FALSE, color |-> ""]
    ELSE prepareGroupUpdates(groupId,
             computeGroupTitle(windowId, appId, versionId, TRUE, brs[<<appId, versionId>>]),
             refreshColorArg(versionId))

IsEmptyUpdate(u) == ~u.hasTitle /\ u.color = ""

\* chrome.tabGroups.update(groupId, updates) applied to titles / colors
TitlesAfter(titles, groupId, u) ==
    IF u.hasTitle THEN [titles EXCEPT ![groupId] = u.title] ELSE titles
ColorsAfter(colors, groupId, u) ==
    IF u.color # "" THEN [colors EXCEPT ![groupId] = u.color] ELSE colors

\* getGroupIdentityFromUrls: majority over the member tabs whose URL is an
\* editor URL that carries both id= and version=
getGroupIdentityFromUrls(groupId) ==
    LET members == SelectSeq(TabsInGroup(groupId), LAMBDA t :
                       /\ tabUrl[t].site = "editor"
                       /\ tabUrl[t].id # ""
                       /\ tabUrl[t].version # "")
    IN findMajorityIdentity([i \in 1..Len(members) |->
           [appId |-> parseEditorIdentity(tabUrl[members[i]]).appId,
            versionId |-> parseEditorIdentity(tabUrl[members[i]]).versionId,
            windowId |-> tabWin[members[i]]]])

\* the identity refreshTitlesForIdentity works with for a group
TitleIdentity(groupId) ==
    IF getGroupIdentity(groupMappings, groupId).id # NoIdent
    THEN getGroupIdentity(groupMappings, groupId).id
    ELSE getGroupIdentityFromUrls(groupId)

RECURSIVE MapsAfterLookups(_, _)
\* the mappings after getGroupIdentity ran for each group of gs in turn
MapsAfterLookups(maps, gs) ==
    IF gs = <<>> THEN maps
    ELSE MapsAfterLookups(getGroupIdentity(maps, Head(gs)).maps, Tail(gs))

\* refreshTitlesForIdentity: the persisted groups of the identity that still
\* exist, else the groups a scan of all host groups attributes to it
PersistedTargets(appId, versionId) ==
    SelectSeq(findGroupsForIdentity(groupMappings, appId, versionId, 0),
              LAMBDA g : g \in groups)

ScannedTargets(appId, versionId) ==
    SelectSeq(SetToSeq(groups), LAMBDA g :
        /\ TitleIdentity(g).appId = appId
        /\ TitleIdentity(g).versionId = versionId)

RefreshTargets(appId, versionId) ==
    IF PersistedTargets(appId, versionId) # <<>>
    THEN PersistedTargets(appId, versionId)
    ELSE ScannedTargets(appId, versionId)

\* refreshTitlesForIdentity(appId, versionId) with the branch data brs in store
refreshTitlesForIdentity(appId, versionId, brs) ==
    LET targets == RefreshTargets(appId, versionId)
        scanned == IF PersistedTargets(appId, versionId) # <<>> THEN <<>>
                   ELSE SetToSeq(groups)
        upd == [g \in GroupIds |->
                   IF g \in Range(targets) /\ TitleIdentity(g) # NoIdent
                   THEN updateGroupProperties(g, TitleIdentity(g).windowId,
                            TitleIdentity(g).appId, TitleIdentity(g).versionId, brs)
                   ELSE [title |-> <<>>, hasTitle |-> FALSE, color |-> ""]]
        sent == {g \in GroupIds : ~IsEmptyUpdate(upd[g])}
    IN /\ groupMappings' = MapsAfterLookups(MapsAfterLookups(groupMappings, scanned), targets)
       /\ grpTitle' = [g \in GroupIds |-> TitlesAfter(grpTitle, g, upd[g])[g]]
       /\ grpColor' = [g \in GroupIds |-> ColorsAfter(grpColor, g, upd[g])[g]]
       /\ internalOps' = internalOps \cup sent
       /\ calls' = calls \cup {HostCall("refresh", {}, g, upd[g].title, upd[g].color) : g \in sent}

\* IMMEDIATE_SCRAPE_RESULT: an editor tab reports the name of its branch
ScrapeResult(t) ==
    /\ LET identity == parseEditorIdentity(tabUrl[t])
           key == <<identity.appId, identity.versionId>>
           brs == [branches EXCEPT ![key] =
                      [(IF @.exists THEN @ ELSE createDefaultBranch) EXCEPT !.name = ScrapedName]]
       IN /\ events < MaxEvents
          /\ tabUrl[t] # Closed
          /\ identity # NoIdentity
          /\ branches' = brs
          /\ refreshTitlesForIdentity(identity.appId, identity.versionId, brs)
          /\ obs' = Disturb(obs)
          /\ events' = events + 1
          /\ UNCHANGED <<tabUrl, tabWin, tabPinned, tabGroup, groups, usedGroupIds, grpWin,
                         removedEvents, tabIndex, extensionGroups, groupingEnabled,
                         manualHolds, debounceTimer, pendingChange, taskVars, home>>
    /\ UNCHANGED auxVars

\* ------------------------------------------------------------------ engine tasks
Bucket(windowId, appId, versionId, tabs) ==
    [windowId |-> windowId, appId |-> appId, versionId |-> versionId, tabs |-> tabs,
     gid |-> NoGroup]

\* planAndExecuteGrouping up to the end of bucketing; started by the debounce
\* timer or by a FORCE_REGROUP message
PlanBegin(byTimer) ==
    /\ LET bs == [i \in 1..Len(bucketTabsByIdentity) |->
                     Bucket(bucketTabsByIdentity[i].windowId, bucketTabsByIdentity[i].appId,
                            bucketTabsByIdentity[i].versionId, bucketTabsByIdentity[i].tabs)]
           runs == groupingEnabled /\ tabIndex # <<>>
       IN /\ byTimer => debounceTimer
          /\ debounceTimer' = IF byTimer THEN FALSE ELSE debounceTimer
          /\ IF runs /\ bs # <<>>
             THEN /\ pc' = "find"
                  /\ kind' = "plan"
                  /\ buckets' = bs
                  /\ bi' = 1
                  /\ obs' = [NoObs EXCEPT !.second = obs.afterPass]
             ELSE /\ pc' = "idle"
                  /\ kind' = "none"
                  /\ buckets' = <<>>
                  /\ bi' = 0
                  /\ obs' = IF runs THEN PassDone([NoObs EXCEPT !.second = obs.afterPass])
                            ELSE Step(obs)
          /\ gid' = NoGroup
          /\ chg' = NoChg
          /\ calls' = {}
          /\ UNCHANGED <<hostVars, tabIndex, storeVars, manualHolds, internalOps,
                         pendingChange, events, home>>
    /\ UNCHANGED <<baseUrls, urlLastSeen, probe>>

\* planAndExecuteGrouping is called while no engine task is in progress
PlanStart(byTimer) ==
    /\ pc = "idle"
    /\ PlanBegin(byTimer)
    /\ UNCHANGED parked

\* planAndExecuteGrouping is called while an engine task is suspended at an
\* await: nothing in debouncedPlan or planAndExecuteGrouping waits for it
PlanStartDuring(byTimer) ==
    /\ pc # "idle"
    /\ parked = NoTask
    /\ PlanBegin(byTimer)
    /\ parked' = [pc |-> pc, kind |-> kind, buckets |-> buckets, bi |-> bi, gid |-> gid,
                  chg |-> chg]

\* the event loop resumes the suspended task; the running one, if it has not
\* ended, is suspended at its await
SwitchTask ==
    /\ parked # NoTask
    /\ pc' = parked.pc
    /\ kind' = parked.kind
    /\ buckets' = parked.buckets
    /\ bi' = parked.bi
    /\ gid' = parked.gid
    /\ chg' = parked.chg
    /\ parked' = IF pc = "idle" THEN NoTask
                 ELSE [pc |-> pc, kind |-> kind, buckets |-> buckets, bi |-> bi, gid |-> gid,
                       chg |-> chg]
    /\ UNCHANGED <<hostVars, tabIndex, storeVars, engineVars, histVars, baseUrls,
                   urlLastSeen, probe>>

\* handleTabIdentityChange from chrome.tabs.get on
StartChange(t) ==
    /\ pc = "idle"
    /\ pendingChange[t] # NoHold
    /\ pendingChange' = [pendingChange EXCEPT ![t] = NoHold]
    /\ IF tabUrl[t] = Closed
       THEN /\ UNCHANGED <<pc, buckets, bi>>
            /\ kind' = "none"
            /\ chg' = NoChg
       ELSE /\ pc' = "find"
            /\ kind' = "change"
            /\ buckets' = <<Bucket(tabWin[t], pendingChange[t].appId,
                                   pendingChange[t].versionId, <<t>>)>>
            /\ bi' = 1
            /\ chg' = [tab |-> t, groupId |-> tabGroup[t], pinned |-> tabPinned[t]]
    /\ gid' = NoGroup
    /\ calls' = {}
    /\ obs' = Disturb(NoObs)
    /\ UNCHANGED <<hostVars, tabIndex, storeVars, manualHolds, internalOps,
                   debounceTimer, events, home>>
    /\ UNCHANGED auxVars

\* a variant of NextBucket below in which a failure in the current bucket
\* ends the pass
NextBucketAbort(o) ==
    IF kind = "plan" /\ bi < Len(buckets) /\ ~o.failed
    THEN /\ pc' = "find"
         /\ bi' = bi + 1
         /\ kind' = kind
         /\ obs' = Step(o)
    ELSE /\ pc' = "idle"
         /\ bi' = bi
         /\ kind' = "none"
         /\ obs' = IF kind = "plan" /\ ~o.failed THEN PassDone(o) ELSE Step(o)

\* what follows the current bucket: the next bucket, or the end of the task
\* (cleanupEmptyGroups drops nothing: querying the tabs of a group never rejects)
NextBucket(o) ==
    IF kind = "plan" /\ bi < Len(buckets)
    THEN /\ pc' = "find"
         /\ bi' = bi + 1
         /\ kind' = kind
         /\ obs' = Step(o)
    ELSE /\ pc' = "idle"
         /\ bi' = bi
         /\ kind' = "none"
         /\ obs' = IF kind = "plan" THEN PassDone(o) ELSE Step(o)

\* findOrCreateGroup up to chrome.tabs.group and addExtensionGroup
FindOrCreate ==
    /\ LET b == buckets[bi]
           r == findGroupByIdentity(groupMappings, b.windowId, b.appId, b.versionId)
           first == b.tabs[1]
           g == NextGroupId
       IN /\ pc = "find"
          /\ groupMappings' = r.maps
          /\ IF r.gid # NoGroup
             THEN /\ gid' = r.gid
                  /\ pc' = "move"
                  /\ obs' = Step(obs)
                  /\ UNCHANGED <<hostVars, extensionGroups, calls, bi, kind>>
             ELSE IF GroupCallFails({first}, NoGroup)
             THEN \* findOrCreateGroup returns null
                  /\ gid' = NoGroup
                  /\ IF kind = "plan"
                     THEN NextBucket([obs EXCEPT !.failed = TRUE])
                     ELSE /\ pc' = "move"
                          /\ obs' = Step([obs EXCEPT !.failed = TRUE])
                          /\ UNCHANGED <<bi, kind>>
                  /\ UNCHANGED <<hostVars, extensionGroups, calls>>
             ELSE /\ usedGroupIds # GroupIds
                  /\ SettleGroups(groups \cup {g}, [tabGroup EXCEPT ![first] = g], tabUrl,
                                  [grpWin EXCEPT ![g] = tabWin[first]], grpTitle, grpColor)
                  /\ usedGroupIds' = usedGroupIds \cup {g}
                  /\ tabPinned' = [tabPinned EXCEPT ![first] = FALSE]
                  /\ extensionGroups' = extensionGroups \cup {g}
                  /\ calls' = calls \cup {HostCall("create", {first}, NoGroup, <<>>, "")}
                  /\ gid' = g
                  /\ pc' = "created"
                  /\ obs' = Step([obs EXCEPT !.freshCreate =
                                      (getBranch(b.appId, b.versionId).color = "")])
                  /\ UNCHANGED <<tabUrl, tabWin, bi, kind>>
          /\ UNCHANGED <<tabIndex, branches, groupingEnabled, engineVars, buckets, chg,
                         events, home>>
    /\ UNCHANGED auxVars

\* findOrCreateGroup after the group exists: initial title, color, mapping
CreateFinish ==
    /\ LET b == buckets[bi]
           initialTitle == IF shouldCleanVersionId(b.versionId)
                           THEN cleanVersionIdForDisplay(b.versionId) ELSE b.versionId
           existingBranch == getBranch(b.appId, b.versionId)
           reservedColor == getReservedColor(b.versionId)
           color == IF existingBranch.color # "" THEN existingBranch.color ELSE reservedColor
       IN /\ pc = "created"
          /\ IF gid \notin groups
             THEN \* chrome.tabGroups.update rejects: findOrCreateGroup returns null
                  /\ gid' = NoGroup
                  /\ IF kind = "plan"
                     THEN NextBucket([obs EXCEPT !.failed = TRUE])
                     ELSE /\ pc' = "move"
                          /\ obs' = Step([obs EXCEPT !.failed = TRUE])
                          /\ UNCHANGED <<bi, kind>>
                  /\ UNCHANGED <<grpTitle, grpColor, internalOps, branches, groupMappings, calls>>
             ELSE /\ grpTitle' = [grpTitle EXCEPT ![gid] = <<initialTitle>>]
                  /\ grpColor' = IF color # "" THEN [grpColor EXCEPT ![gid] = color] ELSE grpColor
                  /\ internalOps' = internalOps \cup {gid}
                  /\ branches' = IF existingBranch.color = "" /\ reservedColor # ""
                                 THEN persistBranchColor(branches, b.appId, b.versionId,
                                                         reservedColor)
                                 ELSE branches
                  /\ groupMappings' = storeGroupMapping(groupMappings, gid, b.appId,
                                                        b.versionId, b.windowId)
                  /\ calls' = calls \cup
                        ({HostCall("create-title", {}, gid, <<initialTitle>>, "")} \cup
                         (IF color # "" THEN {HostCall("create-color", {}, gid, <<>>, color)}
                          ELSE {}))
                  /\ pc' = "move"
                  /\ obs' = Step(obs)
                  /\ UNCHANGED <<gid, bi, kind>>
          /\ UNCHANGED <<tabUrl, tabWin, tabPinned, tabGroup, groups, usedGroupIds, grpWin,
                         removedEvents, tabIndex, extensionGroups, groupingEnabled,
                         manualHolds, debounceTimer, pendingChange, buckets, chg, events, home>>
    /\ UNCHANGED auxVars

\* processTabBucket: moveTabsToGroup, which skips the first tab of the bucket
MoveTabs ==
    /\ LET b == buckets[bi]
           tabsToMove == Range(Tail(b.tabs))
           called == Len(b.tabs) > 1
           fails == GroupCallFails(tabsToMove, gid)
       IN /\ pc = "move"
          /\ kind = "plan"
          /\ buckets' = [buckets EXCEPT ![bi].gid = gid]
          /\ IF called /\ ~fails
             THEN /\ SettleGroups(groups,
                                  [t \in TabIds |-> IF t \in tabsToMove THEN gid ELSE tabGroup[t]],
                                  tabUrl, grpWin, grpTitle, grpColor)
                  /\ tabPinned' = [t \in TabIds |-> tabPinned[t] /\ t \notin tabsToMove]
                  /\ UNCHANGED <<tabUrl, tabWin, usedGroupIds>>
             ELSE UNCHANGED hostVars
          /\ calls' = IF called THEN calls \cup {HostCall("move", tabsToMove, gid, <<>>, "")}
                      ELSE calls
          /\ obs' = Step([obs EXCEPT !.failed = @ \/ (called /\ fails)])
          /\ pc' = "update"
          /\ UNCHANGED <<tabIndex, storeVars, engineVars, kind, bi, gid, chg, events, home>>
    /\ UNCHANGED auxVars

\* processTabBucket: updateGroupProperties, then on to the next bucket
UpdateProps ==
    /\ LET b == buckets[bi]
           u == updateGroupProperties(gid, b.windowId, b.appId, b.versionId, branches)
       IN /\ pc = "update"
          /\ grpTitle' = TitlesAfter(grpTitle, gid, u)
          /\ grpColor' = ColorsAfter(grpColor, gid, u)
          /\ internalOps' = IF IsEmptyUpdate(u) THEN internalOps ELSE internalOps \cup {gid}
          /\ calls' = IF IsEmptyUpdate(u) THEN calls
                      ELSE calls \cup {HostCall("update", {}, gid, u.title, u.color)}
          /\ NextBucket(obs)
          /\ UNCHANGED <<tabUrl, tabWin, tabPinned, tabGroup, groups, usedGroupIds, grpWin,
                         removedEvents, tabIndex, storeVars, manualHolds, debounceTimer,
                         pendingChange, buckets, gid, chg, events, home>>
    /\ UNCHANGED auxVars

\* handleTabIdentityChange is about to return without an error: past
\* findOrCreateGroup, either no move is attempted (no target group, or the tab
\* was read in the target group) or the move call is about to succeed
handleTabIdentityChangeReturns ==
    /\ pc = "move"
    /\ kind = "change"
    /\ ~(gid # NoGroup /\ chg.groupId # gid /\ GroupCallFails({chg.tab}, gid))

\* handleTabIdentityChange after findOrCreateGroup: moveSingleTabToGroup when
\* the tab was not in the target group, nothing otherwise
ChangeMove ==
    /\ LET moves == gid # NoGroup /\ chg.groupId # gid
           fails == GroupCallFails({chg.tab}, gid)
       IN /\ pc = "move"
          /\ kind = "change"
          /\ IF moves /\ ~fails
             THEN /\ SettleGroups(groups, [tabGroup EXCEPT ![chg.tab] = gid], tabUrl,
                                  grpWin, grpTitle, grpColor)
                  /\ tabPinned' = [tabPinned EXCEPT ![chg.tab] = FALSE]
                  /\ UNCHANGED <<tabUrl, tabWin, usedGroupIds>>
             ELSE UNCHANGED hostVars
          /\ calls' = IF moves THEN calls \cup {HostCall("change", {chg.tab}, gid, <<>>, "")}
                      ELSE calls
          /\ obs' = Step([obs EXCEPT !.failed = @ \/ (moves /\ fails)])
          /\ pc' = "idle"
          /\ kind' = "none"
          /\ UNCHANGED <<tabIndex, storeVars, engineVars, buckets, bi, gid, chg, events, home>>
    /\ UNCHANGED auxVars

\* ------------------------------------------------------------------ specifications
\* the steps of the engine's tasks
Engine ==
    \/ \E byTimer \in BOOLEAN : PlanStart(byTimer)
    \/ \E t \in TabIds : StartChange(t)
    \/ FindOrCreate
    \/ CreateFinish
    \/ MoveTabs
    \/ UpdateProps
    \/ ChangeMove
    \/ \E g \in GroupIds : HandleGroupRemoved(g)

\* Tabs navigate, reload and close; the user recolors groups.
Next ==
    \/ \E t \in TabIds, url \in Urls : TabUpdated(t, url)
    \/ \E t \in TabIds, url \in Urls : UrlChangedMsg(t, url)
    \/ \E t \in TabIds : CloseTab(t)
    \/ \E g \in GroupIds, c \in Colors : UserEditGroup(g, grpTitle[g], c)
    \/ \E g \in GroupIds : ExpireInternalOp(g)
    \/ Engine

Spec == Init /\ [][Next]_vars

\* Tabs navigate; the user pins tabs and drags them.
NextGestures ==
    \/ \E t \in TabIds, url \in Urls : TabUpdated(t, url)
    \/ \E t \in TabIds, url \in Urls : UrlChangedMsg(t, url)
    \/ \E t \in TabIds : PinTab(t)
    \/ \E t \in TabIds, out \in BOOLEAN : UserMoveTab(t, out)
    \/ Engine

SpecGestures == Init /\ [][NextGestures]_vars

\* Tabs navigate; the user recolors and renames groups; branch names arrive.
NextTitles ==
    \/ \E t \in TabIds, url \in Urls : TabUpdated(t, url)
    \/ \E g \in GroupIds, c \in Colors : UserEditGroup(g, grpTitle[g], c)
    \/ \E g \in GroupIds : UserEditGroup(g, UserTitle, grpColor[g])
    \/ \E g \in GroupIds : ExpireInternalOp(g)
    \/ \E t \in TabIds : ScrapeResult(t)
    \/ Engine

SpecTitles == Init /\ [][NextTitles]_vars

\* Tabs navigate, close and move between windows; only the registry is watched.
NextRegistry ==
    \/ \E t \in TabIds, url \in Urls : TabUpdated(t, url)
    \/ \E t \in TabIds, url \in Urls : UrlChangedMsg(t, url)
    \/ \E t \in TabIds : CloseTab(t)
    \/ \E t \in TabIds : DetachTab(t)
    \/ \E t \in TabIds, w \in Windows : AttachTab(t, w)

SpecRegistry == Init /\ [][NextRegistry]_vars

\* ------------------------------------------------------------------ recovery
\* cleanupStaleGroups: a mapping is kept when its group exists and it was
\* touched within MAX_AGE_MS
cleanupStaleGroups(maps) ==
    [g \in GroupIds |-> IF g \in groups /\ maps[g].fresh THEN maps[g] ELSE NoMapping]

\* The memory of the service worker has been wiped.  The host holds any
\* arrangement of the tabs in groups; the store holds, for every group id,
\* no mapping or a mapping (touched within the last 24 hours or not) to any
\* branch.  home records the group each tab is in at this point.
InitRecovery ==
    /\ tabUrl \in Showing(Urls)
    /\ tabWin = [t \in TabIds |-> MainWindow]
    /\ tabPinned = [t \in TabIds |-> FALSE]
    /\ tabGroup \in {[t \in TabIds |-> IF t \in EarlyTabs THEN f[t] ELSE NoGroup] :
                       f \in [EarlyTabs -> {NoGroup} \cup (1..MaxTabs)]}
    /\ groups = {tabGroup[t] : t \in TabIds} \ {NoGroup}
    /\ usedGroupIds = {g \in GroupIds : \E h \in groups : g <= h}
    /\ grpWin = [g \in GroupIds |-> IF g \in groups THEN MainWindow ELSE 0]
    /\ grpTitle = [g \in GroupIds |-> <<>>]
    /\ grpColor = [g \in GroupIds |-> "grey"]
    /\ removedEvents = {}
    /\ tabIndex = <<>>
    /\ groupMappings \in [GroupIds ->
           {NoMapping} \cup
           {[appId |-> b[1], versionId |-> b[2], windowId |-> MainWindow, fresh |-> f] :
               b \in Branches, f \in BOOLEAN}]
    /\ \A g \in GroupIds \ usedGroupIds : groupMappings[g] = NoMapping
    /\ branches = [b \in Branches |-> NoBranch]
    /\ extensionGroups = groups
    /\ groupingEnabled = TRUE
    /\ manualHolds = [t \in TabIds |-> NoHold]
    /\ internalOps = {}
    /\ debounceTimer = FALSE
    /\ pendingChange = [t \in TabIds |-> NoHold]
    /\ pc = "wiped"
    /\ kind = "none"
    /\ buckets = <<>>
    /\ bi = 0
    /\ gid = NoGroup
    /\ chg = NoChg
    /\ calls = {}
    /\ obs = NoObs
    /\ events = 0
    /\ home = tabGroup
    /\ baseUrls = <<>>
    /\ urlLastSeen = <<>>
    /\ probe = NoProbe
    /\ parked = NoTask

\* initialize: scanExistingTabs
RecoverScan ==
    /\ pc = "wiped"
    /\ tabIndex' = scanExistingTabs(tabUrl, branches).index
    /\ branches' = scanExistingTabs(tabUrl, branches).branches
    /\ baseUrls' = scanExistingTabs(tabUrl, branches).baseUrls
    /\ urlLastSeen' = scanExistingTabs(tabUrl, branches).urlLastSeen
    /\ pc' = "scanned"
    /\ UNCHANGED <<hostVars, groupMappings, extensionGroups, groupingEnabled, engineVars,
                   kind, buckets, bi, gid, chg, histVars>>
    /\ UNCHANGED <<probe, parked>>

\* initialize: the engine reconciles the stored mappings with the host
recoverGroupMappings ==
    /\ pc = "scanned"
    /\ groupMappings' = cleanupStaleGroups(groupMappings)
    /\ pc' = "idle"
    /\ UNCHANGED <<hostVars, tabIndex, branches, extensionGroups, groupingEnabled,
                   engineVars, kind, buckets, bi, gid, chg, histVars>>
    /\ UNCHANGED auxVars

\* initialize up to the end of its planning pass
NextRecovery ==
    \/ RecoverScan
    \/ recoverGroupMappings
    \/ PlanStart(FALSE)
    \/ FindOrCreate
    \/ CreateFinish
    \/ MoveTabs
    \/ UpdateProps
    \/ \E g \in GroupIds : HandleGroupRemoved(g)

SpecRecovery == InitRecovery /\ [][NextRecovery]_vars

\* ------------------------------------------------------------------ claims
SameMapping(g, h) ==
    /\ groupMappings[g] # NoMapping
    /\ groupMappings[h] # NoMapping
    /\ groupMappings[g].windowId = groupMappings[h].windowId
    /\ groupMappings[g].appId = groupMappings[h].appId
    /\ groupMappings[g].versionId = groupMappings[h].versionId

\* C1: when a planning pass has just completed (one that no event interrupted,
\* with every group removal the host reported handled), the durable store
\* maps at most one group id to any (windowId, appId, versionId).
C1_OneGroupPerIdentity ==
    (obs.doneNow /\ ~obs.disturbed /\ removedEvents = {}) =>
        \A g, h \in GroupIds : SameMapping(g, h) => g = h

\* C2: when a planning pass has just completed, no host call of it failed and
\* no event interrupted it, every tab of every bucket is a member of the
\* group resolved for the bucket.
C2_BucketTabsInResolvedGroup ==
    (obs.doneNow /\ ~obs.failed /\ ~obs.disturbed) =>
        \A i \in 1..Len(buckets) : \A t \in Range(buckets[i].tabs) :
            tabGroup[t] = buckets[i].gid

C4_SecondPassIssuesNothing ==
    (obs.doneNow /\ obs.second) => calls = {}

\* C7: a tab that was pinned when handleTabIdentityChange read it appears in
\* no host group call of that identity-change move.
C7_PinnedTabNeverGrouped ==
    chg.pinned => \A c \in calls : chg.tab \notin c.tabs

\* C8: a manual hold is gone once the registry identity of its tab differs
\* from the identity the hold was taken for.
C8_HoldReleasedOnIdentityChange ==
    \A t \in TabIds :
        (manualHolds[t] # NoHold /\ getIdentity(t) # NoEntry) =>
            SameIdentity(manualHolds[t], getIdentity(t))

\* the creation of a group has just finished for a "live" / "test" bucket
\* whose branch had no color when the creation began
ReservedCreationDone ==
    /\ pc = "created"
    /\ pc' = "move"
    /\ gid' = gid
    /\ obs.freshCreate
    /\ getReservedColor(buckets[bi].versionId) # ""

\* C9: when the creation of a group for a "live" / "test" bucket without a
\* stored color finishes, the group has the reserved color and Branch Data
\* stores it, whatever group-updated events arrived during the creation.
C9_ReservedColorAtCreation ==
    [][ReservedCreationDone =>
          /\ grpColor'[gid] = getReservedColor(buckets[bi].versionId)
          /\ branches'[<<buckets[bi].appId, buckets[bi].versionId>>].color =
                 getReservedColor(buckets[bi].versionId)]_vars

\* a step of updateGroupProperties: in a planning pass, or for the groups
\* refreshTitlesForIdentity selected
TitleRefreshStep ==
    \/ UpdateProps
    \/ \E t \in TabIds : ScrapeResult(t)

\* C10: a title refresh sends no color to the host and leaves the color of
\* every group and the color stored for every branch as they were.
C10_TitleRefreshKeepsColors ==
    [][TitleRefreshStep =>
          /\ grpColor' = grpColor
          /\ \A b \in Branches : branches'[b].color = branches[b].color
          /\ \A c \in calls' \ calls : c.color = ""]_vars

\* a title refresh has reached a group mapped to "test" whose color is not the
\* reserved one, while Branch Data stores a color the user chose
C10_Witness ==
    \E c \in calls :
        /\ c.by \in {"update", "refresh"}
        /\ c.gid \in groups
        /\ groupMappings[c.gid] # NoMapping
        /\ groupMappings[c.gid].versionId = "test"
        /\ grpColor[c.gid] \notin {"grey", RESERVED_COLORS.test}
        /\ branches[<<groupMappings[c.gid].appId, "test">>].color = grpColor[c.gid]

\* C6: a tab that is closed, detached, or showing a URL without an identity
\* has no registry entry.
C6_NoEntryWithoutIdentity ==
    \A t \in TabIds :
        (\/ tabUrl[t] = Closed
         \/ tabWin[t] = 0
         \/ parseTabIdentitySync(tabUrl[t]) = NoIdentity) => getIdentity(t) = NoEntry

\* the groups of the host when the memory was wiped
WipedGroups == {home[t] : t \in TabIds} \ {NoGroup}

\* every tab that was in group g at the wipe shows a URL of branch b
MembersParseTo(g, b) ==
    \A t \in TabIds : home[t] = g =>
        /\ parseTabIdentitySync(tabUrl[t]).appId = b[1]
        /\ parseTabIdentitySync(tabUrl[t]).versionId = b[2]

MappedTo(g, b) ==
    /\ groupMappings[g] # NoMapping
    /\ groupMappings[g].appId = b[1]
    /\ groupMappings[g].versionId = b[2]

\* group g has been mapped to branch b again, and no group made since the
\* wipe is mapped to b
Recovered(g, b) ==
    /\ MappedTo(g, b)
    /\ \A h \in usedGroupIds \ WipedGroups : ~MappedTo(h, b)

NoOtherGroupHas(g, b) ==
    \A t \in TabIds :
        (/\ parseTabIdentitySync(tabUrl[t]).appId = b[1]
         /\ parseTabIdentitySync(tabUrl[t]).versionId = b[2]) => home[t] \in {g, NoGroup}

\* at the wipe: the member tabs of group g re-parse to branch b, no other
\* group holds a tab of b, the store maps g to b or to nothing, and it maps
\* no other group id to b
SoleGroupAtWipe(g, b) ==
    /\ pc = "wiped"
    /\ g \in groups
    /\ MembersParseTo(g, b)
    /\ NoOtherGroupHas(g, b)
    /\ groupMappings[g] = NoMapping \/ MappedTo(g, b)
    /\ \A h \in GroupIds \ {g} : ~MappedTo(h, b)

EventTitles(g) == {grpTitle[g], UserTitle}

\* the branch of the identity handleUserGroupRename finds for group g
RenamedBranch(g) ==
    LET identity == getGroupIdentity(groupMappings, g).id
    IN <<identity.appId, identity.versionId>>

\* C11: when the listener hands a title to handleUserGroupRename for a group
\* with an identity, a title equal to the automatic title (computed from the
\* current Branch Data, displayName ignored) leaves every displayName as it
\* was, and any other title becomes the displayName of the group's branch.
C11_RenameEchoSuppressed ==
    [][\A g \in GroupIds : \A title \in EventTitles(g) : \A color \in Colors :
          (UserEditGroup(g, title, color) /\ RenameHandled(g, title)) =>
              IF title = AutomaticTitle(g)
              THEN \A b \in Branches : branches'[b].displayName = branches[b].displayName
              ELSE /\ branches'[RenamedBranch(g)].displayName = title
                   /\ \A b \in Branches \ {RenamedBranch(g)} :
                         branches'[b].displayName = branches[b].displayName]_vars

\* since the last pass began, the listener has suppressed an echo of the
\* automatic title and has stored a title the user typed
C11_Witness ==
    /\ obs.echoed
    /\ obs.renamed
    /\ \E b \in Branches : branches[b].displayName = UserTitle

\* ------------------------------------------------------------------ quiet state
\* A browser without tabs and groups, an empty store and an idle engine: the
\* state the specifications that study one function start from.
QuietHost ==
    /\ tabUrl = [t \in TabIds |-> Closed]
    /\ tabWin = [t \in TabIds |-> MainWindow]
    /\ tabPinned = [t \in TabIds |-> FALSE]
    /\ tabGroup = [t \in TabIds |-> NoGroup]
    /\ groups = {}
    /\ usedGroupIds = {}
    /\ grpWin = [g \in GroupIds |-> 0]
    /\ grpTitle = [g \in GroupIds |-> <<>>]
    /\ grpColor = [g \in GroupIds |-> "grey"]
    /\ removedEvents = {}

QuietStore ==
    /\ groupMappings = [g \in GroupIds |-> NoMapping]
    /\ branches = [b \in Branches |-> NoBranch]
    /\ extensionGroups = {}
    /\ groupingEnabled = TRUE
    /\ baseUrls = <<>>
    /\ urlLastSeen = <<>>

QuietEngine ==
    /\ manualHolds = [t \in TabIds |-> NoHold]
    /\ internalOps = {}
    /\ debounceTimer = FALSE
    /\ pendingChange = [t \in TabIds |-> NoHold]
    /\ pc = "idle"
    /\ kind = "none"
    /\ buckets = <<>>
    /\ bi = 0
    /\ gid = NoGroup
    /\ chg = NoChg
    /\ calls = {}
    /\ obs = NoObs
    /\ events = 0
    /\ home = [t \in TabIds |-> NoGroup]
    /\ parked = NoTask

\* ------------------------------------------------------------------ computeGroupTitle alone
TitleVersionIds == {"dev", "test", "live", "", OpaqueId}
TitleApps == {"acme", "beta"}

\* the Branch Data records computeGroupTitle may be handed: none, or one with
\* or without a scraped name and with or without a display name
TitleBranches ==
    {NoBranch} \cup
    {[exists |-> TRUE, name |-> n, displayName |-> d, color |-> ""] :
        n \in {"", ScrapedName}, d \in {<<>>, UserTitle}}

\* the registries of one window: one or two tabs, of one app or of two
TitleRegistries ==
    {<<[tabId |-> 1, windowId |-> MainWindow, appId |-> a, versionId |-> "dev",
        type |-> "editor"]>> : a \in TitleApps} \cup
    {<<[tabId |-> 1, windowId |-> MainWindow, appId |-> a1, versionId |-> "dev",
        type |-> "editor"],
       [tabId |-> 2, windowId |-> MainWindow, appId |-> a2, versionId |-> "dev",
        type |-> "editor"]>> : a1 \in TitleApps, a2 \in TitleApps}

\* computeGroupTitle is about to be called with any bucket, flag and branch
InitTitle ==
    /\ QuietHost
    /\ QuietStore
    /\ QuietEngine
    /\ tabIndex \in TitleRegistries
    /\ probe \in [fn : {"computeGroupTitle"}, appId : TitleApps, versionId : TitleVersionIds,
                  includeDisplayName : BOOLEAN, branch : TitleBranches,
                  done : {FALSE}, out : {<<>>}]

\* the call returns
ComputeTitle ==
    /\ probe.fn = "computeGroupTitle"
    /\ ~probe.done
    /\ probe' = [probe EXCEPT
                    !.done = TRUE,
                    !.out = computeGroupTitle(MainWindow, probe.appId, probe.versionId,
                                              probe.includeDisplayName, probe.branch)]
    /\ UNCHANGED <<hostVars, tabIndex, storeVars, engineVars, taskVars, histVars,
                   baseUrls, urlLastSeen, parked>>

NextTitle == ComputeTitle

SpecTitle == InitTitle /\ [][NextTitle]_vars

\* the version label the claim describes, for a call without a display name
\* in play: "Test" / "Live", else the scraped name, else the version id,
\* cleaned when it is empty or opaque
ExpectedLabel(versionId, branch) ==
    IF versionId = "test" THEN "Test"
    ELSE IF versionId = "live" THEN "Live"
    ELSE IF branch.name # "" THEN branch.name
    ELSE IF versionId = "" THEN "Unknown Branch"
    ELSE IF versionId = OpaqueId THEN OpaqueIdShort
    ELSE versionId

\* C12: computeGroupTitle returns the display name verbatim, without an app
\* suffix, when inclusion is requested and a display name is stored; otherwise
\* the label is "Test" / "Live" for a reserved version, else the scraped name
\* (one that differs from the version id), else the version id, cleaned when
\* opaque; the app suffix is added to the label in a multi-app window only.
C12_TitlePriority ==
    (probe.fn = "computeGroupTitle" /\ probe.done) =>
        IF probe.includeDisplayName /\ probe.branch.displayName # <<>>
        THEN probe.out = probe.branch.displayName
        ELSE probe.out =
                 IF Cardinality({e.appId : e \in Range(tabIndex)}) > 1
                 THEN <<ExpectedLabel(probe.versionId, probe.branch), "|", probe.appId>>
                 ELSE <<ExpectedLabel(probe.versionId, probe.branch)>>

\* a display name has won over a scraped name for a reserved version in a
\* window of two apps
C12_Witness ==
    /\ probe.fn = "computeGroupTitle"
    /\ probe.done
    /\ probe.includeDisplayName
    /\ probe.branch.displayName = UserTitle
    /\ probe.branch.name = ScrapedName
    /\ probe.versionId = "live"
    /\ Cardinality({e.appId : e \in Range(tabIndex)}) > 1
    /\ probe.out = UserTitle

\* ------------------------------------------------------------------ bucketTabsByIdentity alone
\* the registry entries a tab may have
BucketEntries(t) ==
    {[tabId |-> t, windowId |-> w, appId |-> b[1], versionId |-> b[2], type |-> "editor"] :
        w \in Windows, b \in Branches}

\* the registries over the tabs: any subset of the tabs registered, in any
\* insertion order, each in any window with any identity
BucketRegistries ==
    {<<>>} \cup
    UNION {{<<e>> : e \in BucketEntries(t)} : t \in EarlyTabs} \cup
    UNION {{<<e1, e2>> : e1 \in BucketEntries(ts[1]), e2 \in BucketEntries(ts[2])} :
              ts \in {x \in EarlyTabs \X EarlyTabs : x[1] # x[2]}}

\* bucketTabsByIdentity is about to run over any registry, with any tab
\* pinned, closed, or held for any identity
InitBucket ==
    /\ tabUrl \in Showing({Closed, OtherUrl})
    /\ tabWin = [t \in TabIds |-> MainWindow]
    /\ tabPinned \in {[t \in TabIds |-> t \in EarlyTabs /\ f[t]] : f \in [EarlyTabs -> BOOLEAN]}
    /\ tabGroup = [t \in TabIds |-> NoGroup]
    /\ groups = {}
    /\ usedGroupIds = {}
    /\ grpWin = [g \in GroupIds |-> 0]
    /\ grpTitle = [g \in GroupIds |-> <<>>]
    /\ grpColor = [g \in GroupIds |-> "grey"]
    /\ removedEvents = {}
    /\ QuietStore
    /\ tabIndex \in BucketRegistries
    /\ manualHolds \in {[t \in TabIds |-> IF t \in EarlyTabs THEN f[t] ELSE NoHold] :
                          f \in [EarlyTabs -> {NoHold} \cup
                                     {[appId |-> b[1], versionId |-> b[2]] : b \in Branches}]}
    /\ internalOps = {}
    /\ debounceTimer = FALSE
    /\ pendingChange = [t \in TabIds |-> NoHold]
    /\ pc = "idle"
    /\ kind = "none"
    /\ buckets = <<>>
    /\ bi = 0
    /\ gid = NoGroup
    /\ chg = NoChg
    /\ calls = {}
    /\ obs = NoObs
    /\ events = 0
    /\ home = [t \in TabIds |-> NoGroup]
    /\ probe = [fn |-> "bucketTabsByIdentity", done |-> FALSE, out |-> <<>>]
    /\ parked = NoTask

\* the call returns its buckets
BucketTabs ==
    /\ probe.fn = "bucketTabsByIdentity"
    /\ ~probe.done
    /\ probe' = [probe EXCEPT !.done = TRUE, !.out = bucketTabsByIdentity]
    /\ UNCHANGED <<hostVars, tabIndex, storeVars, engineVars, taskVars, histVars,
                   baseUrls, urlLastSeen, parked>>

NextBucketing == BucketTabs

SpecBucket == InitBucket /\ [][NextBucketing]_vars

\* a registered tab the pass may move: it exists, is not pinned, and no hold
\* was taken for the identity the registry has for it
Bucketable(t) ==
    /\ getIdentity(t) # NoEntry
    /\ tabUrl[t] # Closed
    /\ ~tabPinned[t]
    /\ ~(manualHolds[t] # NoHold /\ SameIdentity(manualHolds[t], getIdentity(t)))

\* the places (bucket, position) tab t takes in the buckets bs
PlacesOf(bs, t) ==
    {p \in (1..Len(bs)) \X (1..MaxTabs) :
        p[2] <= Len(bs[p[1]].tabs) /\ bs[p[1]].tabs[p[2]] = t}

\* C13: the buckets are a partition of the registered tabs that are neither
\* pinned nor held: each such tab takes exactly one place, in a bucket that
\* carries its (windowId, appId, versionId); no other tab takes a place; no
\* bucket is empty, and no two buckets carry the same key.
C13_BucketsPartition ==
    (probe.fn = "bucketTabsByIdentity" /\ probe.done) =>
        /\ \A t \in TabIds :
              IF Bucketable(t)
              THEN /\ Cardinality(PlacesOf(probe.out, t)) = 1
                   /\ \A p \in PlacesOf(probe.out, t) :
                         /\ probe.out[p[1]].windowId = getIdentity(t).windowId
                         /\ probe.out[p[1]].appId = getIdentity(t).appId
                         /\ probe.out[p[1]].versionId = getIdentity(t).versionId
              ELSE PlacesOf(probe.out, t) = {}
        /\ \A i \in 1..Len(probe.out) : probe.out[i].tabs # <<>>
        /\ \A i \in 1..Len(probe.out) : \A k \in 1..Len(probe.out) :
              (/\ probe.out[i].windowId = probe.out[k].windowId
               /\ probe.out[i].appId = probe.out[k].appId
               /\ probe.out[i].versionId = probe.out[k].versionId) => i = k

\* two tabs of one identity registered in two windows have a bucket each,
\* one of them held for an identity it has left
C13_Witness ==
    /\ probe.fn = "bucketTabsByIdentity"
    /\ probe.done
    /\ Len(probe.out) = 2
    /\ probe.out[1].appId = probe.out[2].appId
    /\ probe.out[1].versionId = probe.out[2].versionId
    /\ \E t \in TabIds : Bucketable(t) /\ manualHolds[t] # NoHold

\* ------------------------------------------------------------------ custom domains
CustomHost == "app.acme.com"

\* pages of the app served from its own domain, with and without the
\* debug_mode=true parameter and the /version-<id> path segment
DomainUrls ==
    { [site |-> "other", id |-> "", version |-> v, host |-> CustomHost, debug |-> d] :
      v \in {"dev", ""}, d \in BOOLEAN }

\* Tabs navigate between editor pages and pages on the custom domain.
NextDomains ==
    \/ \E t \in TabIds, url \in Urls \cup DomainUrls : TabUpdated(t, url)
    \/ Engine

SpecDomains == Init /\ [][NextDomains]_vars

\* the tab and URL whose processing passes the four rules in the current state
PassesAllRules(t, url) ==
    /\ IdentityOf(url) # NoIdentity
    /\ validateAllRulesForBaseUrl(url, t, IdentityOf(url).appId, IdentityOf(url).versionId,
                                  branches, groupMappings)

\* C14: a custom-domain hostname enters the baseUrls of the app only in a step
\* that processes, for some tab, a URL on that hostname passing all four rules
\* (debug_mode=true, a /version-<id> segment, a stored branch, the tab in the
\* group mapped to the identity).
C14_BaseUrlOnlyByRules ==
    [][(~Has(baseUrls, CustomHost) /\ Has(baseUrls', CustomHost)) =>
         \E t \in TabIds : /\ tabUrl'[t].host = CustomHost
                            /\ PassesAllRules(t, tabUrl'[t])]_vars

\* the version fallback applies to the URL: debug_mode=true and a
\* /version-<id> segment naming a stored branch
FallbackApplies(url) ==
    /\ url.debug
    /\ url.version # ""
    /\ \E b \in Branches : b[2] = url.version /\ branches[b].exists

\* C15: when a tab navigates to a URL whose hostname is in no baseUrls, an
\* identity is resolved only if the URL has debug_mode=true and a
\* /version-<id> segment matching a stored branch; otherwise no identity is
\* returned and the registry holds no entry for the tab afterwards.
C15_UnknownDomainNotAdopted ==
    [][\A t \in TabIds :
          (/\ tabUrl'[t] # tabUrl[t]
           /\ tabUrl'[t].site = "other"
           /\ ~Has(baseUrls, tabUrl'[t].host)) =>
             IF FallbackApplies(tabUrl'[t])
             THEN TRUE
             ELSE /\ parseCustomDomainIdentity(tabUrl'[t], baseUrls, branches) = NoIdentity
                  /\ EntryOf(tabIndex', t) = NoEntry]_vars

\* ------------------------------------------------------------------ the baseUrls of one app
\* thirteen hostnames of the app besides acme.bubbleapps.io
HostNames ==
    <<"h01.acme.com", "h02.acme.com", "h03.acme.com", "h04.acme.com", "h05.acme.com",
      "h06.acme.com", "h07.acme.com", "h08.acme.com", "h09.acme.com", "h10.acme.com",
      "h11.acme.com", "h12.acme.com", "h13.acme.com">>

\* The app has been seen on its first ten or eleven hostnames, in turn.
InitBaseUrls ==
    /\ QuietHost
    /\ QuietEngine
    /\ tabIndex = <<>>
    /\ groupMappings = [g \in GroupIds |-> NoMapping]
    /\ branches = [b \in Branches |-> NoBranch]
    /\ extensionGroups = {}
    /\ groupingEnabled = TRUE
    /\ \E n \in {MaxBaseUrls - 2, MaxBaseUrls - 1} :
          /\ baseUrls = <<CanonicalHost("acme")>> \o SubSeq(HostNames, 1, n)
          /\ urlLastSeen = SubSeq(HostNames, 1, n)
    /\ probe = [fn |-> "baseUrls", n |-> 0]

\* processTabIdentity for a preview identity of the app on hostname: addBaseUrl
\* when the rules pass, then updateAppStorage
VisitHost(hostname, passes) ==
    /\ probe.fn = "baseUrls"
    /\ probe.n < MaxEvents
    /\ LET identity == [appId |-> "acme", versionId |-> "dev", type |-> "preview",
                        hostname |-> hostname]
           added == IF passes THEN addBaseUrl(baseUrls, identity.appId, hostname)
                    ELSE baseUrls
           app == updateAppStorage([baseUrls |-> added, urlLastSeen |-> urlLastSeen],
                                   identity)
       IN /\ baseUrls' = app.baseUrls
          /\ urlLastSeen' = app.urlLastSeen
    /\ probe' = [probe EXCEPT !.n = @ + 1]
    /\ UNCHANGED <<hostVars, tabIndex, storeVars, engineVars, taskVars, histVars, parked>>

NextBaseUrls ==
    \E i \in 1..Len(HostNames), passes \in BOOLEAN : VisitHost(HostNames[i], passes)

SpecBaseUrls == InitBaseUrls /\ [][NextBaseUrls]_vars

\* the position of the hostname in the order of last sight (0: never seen)
SeenRank(seen, hostname) ==
    IF Has(seen, hostname) THEN CHOOSE i \in 1..Len(seen) : seen[i] = hostname ELSE 0

\* C16: after every addition the baseUrls hold acme.bubbleapps.io and at most
\* twelve entries, and a hostname that is evicted was seen no later than any
\* other hostname that stays.
C16_LruBaseUrlCap ==
    [][/\ Has(baseUrls', CanonicalHost("acme"))
       /\ Len(baseUrls') <= MaxBaseUrls
       /\ \A i, k \in 1..Len(HostNames) :
             (/\ Has(baseUrls, HostNames[i]) /\ ~Has(baseUrls', HostNames[i])
              /\ Has(baseUrls, HostNames[k]) /\ Has(baseUrls', HostNames[k])) =>
                SeenRank(urlLastSeen, HostNames[i]) <= SeenRank(urlLastSeen, HostNames[k])]_vars

\* ------------------------------------------------------------------ a tab opens
\* a preview page of the live version of the app
LiveUrl == [site |-> "preview", id |-> "acme", version |-> "", host |-> "acme.bubbleapps.io",
            debug |-> FALSE]
DevUrl == [site |-> "editor", id |-> "acme", version |-> "dev", host |-> "bubble.io",
           debug |-> FALSE]

\* chrome.tabs.onCreated, then chrome.tabs.onUpdated with the URL: a new tab
\* opens in the main window and loads url; the registry has no entry for it
OpenTab(t, url) ==
    /\ events < MaxEvents
    /\ tabUrl[t] = Closed
    /\ tabWin[t] = MainWindow
    /\ getIdentity(t) = NoEntry
    /\ tabUrl' = [tabUrl EXCEPT ![t] = url]
    /\ tabIndex' = processTabIdentity(tabIndex, t, tabWin[t], url)
    /\ branches' = ProcessStore(t, url).branches
    /\ baseUrls' = ProcessStore(t, url).baseUrls
    /\ urlLastSeen' = ProcessStore(t, url).urlLastSeen
    /\ debounceTimer' = (debounceTimer \/ EntryOf(tabIndex', t) # NoEntry)
    /\ home' = [home EXCEPT ![t] = NoGroup]
    /\ obs' = Disturb(obs)
    /\ events' = events + 1
    /\ UNCHANGED <<tabWin, tabPinned, tabGroup, groups, usedGroupIds, grpWin, grpTitle,
                   grpColor, removedEvents, groupMappings, extensionGroups,
                   groupingEnabled, manualHolds, internalOps, pendingChange, taskVars,
                   calls, probe, parked>>

\* Two tabs show the editor of acme/dev when the service worker starts.
InitScenario ==
    /\ Init
    /\ \A t \in EarlyTabs : tabUrl[t] = DevUrl

\* A further tab opens while planning passes run.
NextScenario ==
    \/ \E url \in Urls \cup {LiveUrl} : OpenTab(LateTab, url)
    \/ \E byTimer \in BOOLEAN : PlanStart(byTimer)
    \/ FindOrCreate
    \/ CreateFinish
    \/ MoveTabs
    \/ UpdateProps

SpecScenario == InitScenario /\ [][NextScenario]_vars

\* the two early tabs share one group titled with the bare version id
DevGroupStands ==
    /\ \A t \in EarlyTabs : tabGroup[t] = tabGroup[1]
    /\ tabGroup[1] \in groups
    /\ grpTitle[tabGroup[1]] = <<"dev">>

\* C17: with two tabs of acme/dev in one window and no scraped or display
\* name, the pass that ends before anything else happens leaves both tabs in
\* one new group titled "dev"; once a third tab shows acme/live, the pass that
\* runs after it opened leaves that tab in a second group titled "Live" and
\* colored green, the first group still titled "dev".
C17_Scenario ==
    /\ (obs.doneNow /\ events = 0) => (DevGroupStands /\ groups = {tabGroup[1]})
    /\ (obs.doneNow /\ ~obs.disturbed /\ tabUrl[LateTab] = LiveUrl) =>
          /\ DevGroupStands
          /\ tabGroup[LateTab] \in groups \ {tabGroup[1]}
          /\ groups = {tabGroup[1], tabGroup[LateTab]}
          /\ grpTitle[tabGroup[LateTab]] = <<"Live">>
          /\ grpColor[tabGroup[LateTab]] = "green"

\* the first pass has ended, the third tab has opened on acme/live, and the
\* pass after that has ended
C17_Witness ==
    /\ obs.doneNow
    /\ ~obs.disturbed
    /\ events = 1
    /\ tabUrl[LateTab] = LiveUrl
    /\ tabGroup[LateTab] > tabGroup[1]
    /\ tabGroup[1] # NoGroup
    /\ grpTitle[tabGroup[LateTab]] = <<"Live">>
    /\ \E c \in calls : c.by = "create"
    /\ \A c \in calls : c.by = "create" => c.tabs = {LateTab}

\* C18: the registry takes a new identity for a registered tab only in a
\* step after which the tab sits in the group of the new identity (moved, or
\* there already); while the move is outstanding or has failed the registry
\* holds the old identity.
C18_RegistryAfterMove ==
    [][\A t \in TabIds :
          (/\ EntryOf(tabIndex, t) # NoEntry
           /\ EntryOf(tabIndex', t) # NoEntry
           /\ ~SameIdentity(EntryOf(tabIndex, t), EntryOf(tabIndex', t))) =>
             /\ tabGroup'[t] # NoGroup
             /\ groupMappings'[tabGroup'[t]] # NoMapping
             /\ SameIdentity(groupMappings'[tabGroup'[t]], EntryOf(tabIndex', t))]_vars

\* the tab the identity change is about sits in the group mapped to the new identity
InTargetGroup(tg, maps) ==
    /\ tg[chg.tab] # NoGroup
    /\ maps[tg[chg.tab]] # NoMapping
    /\ SameIdentity(maps[tg[chg.tab]], buckets[1])

\* C19: when handleTabIdentityChange returns without an error, the tab is in
\* the group of its new identity; without a target group, with a failing
\* move call or with the tab elsewhere it does not return normally.
C19_ReturnMeansMoved ==
    [][(handleTabIdentityChangeReturns /\ pc' = "idle") =>
          InTargetGroup(tabGroup', groupMappings')]_vars

\* ------------------------------------------------------------------ overlapping passes
\* A further tab opens; planning passes start by the timer or directly,
\* whether or not one is in progress.
NextOverlap ==
    \/ \E url \in Urls \cup {LiveUrl} : OpenTab(LateTab, url)
    \/ \E byTimer \in BOOLEAN : PlanStart(byTimer)
    \/ \E byTimer \in BOOLEAN : PlanStartDuring(byTimer)
    \/ SwitchTask
    \/ FindOrCreate
    \/ CreateFinish
    \/ MoveTabs
    \/ UpdateProps

SpecOverlap == InitScenario /\ [][NextOverlap]_vars

\* C20: two planning passes are never in progress at the same time: while one
\* is between its start and its last step, no other has started.
C20_OnePassAtATime ==
    ~(/\ pc # "idle"
      /\ kind = "plan"
      /\ parked # NoTask
      /\ parked.kind = "plan")

\* ------------------------------------------------------------------ debouncedPlan alone
MaxCalls == 5

\* the reasons debouncedPlan is called with
Reasons == {"tab-updated", "tab-removed", "tab-attached"}

\* clearTimeout(id) on the set of the host's pending timers
clearTimeoutNot(pending, id) == pending

clearTimeout(pending, id) == {t \in pending : t.id # id}

\* The engine has just been constructed: debounceTimer is null (0), no timer
\* is pending.  made counts the debouncedPlan calls, burst those since the
\* last pass started, passes the planAndExecuteGrouping calls by a timer.
InitDebounce ==
    /\ QuietHost
    /\ QuietStore
    /\ QuietEngine
    /\ tabIndex = <<>>
    /\ probe = [fn |-> "debouncedPlan", pending |-> {}, timer |-> 0, made |-> 0,
                burst |-> 0, passes |-> 0, reason |-> ""]

\* debouncedPlan(reason): the pending timer, if any, is cleared and a new one is set
debouncedPlan(reason) ==
    /\ probe.fn = "debouncedPlan"
    /\ probe.made < MaxCalls
    /\ LET id == probe.made + 1
           cleared == IF probe.timer # 0 THEN clearTimeout(probe.pending, probe.timer)
                      ELSE probe.pending
       IN probe' = [probe EXCEPT !.pending = cleared \cup {[id |-> id, reason |-> reason]},
                                 !.timer = id,
                                 !.made = id,
                                 !.burst = @ + 1]
    /\ debounceTimer' = TRUE
    /\ UNCHANGED <<hostVars, tabIndex, storeVars, manualHolds, internalOps, pendingChange,
                   taskVars, histVars, baseUrls, urlLastSeen, parked>>

\* a pending timer fires: debounceTimer = null, planAndExecuteGrouping(reason)
\* (the registry is empty, so the pass returns at once)
TimerFires(id, reason) ==
    /\ probe.fn = "debouncedPlan"
    /\ [id |-> id, reason |-> reason] \in probe.pending
    /\ probe' = [probe EXCEPT !.pending = @ \ {[id |-> id, reason |-> reason]},
                              !.timer = 0,
                              !.burst = 0,
                              !.passes = @ + 1,
                              !.reason = reason]
    /\ debounceTimer' = FALSE
    /\ UNCHANGED <<hostVars, tabIndex, storeVars, manualHolds, internalOps, pendingChange,
                   taskVars, histVars, baseUrls, urlLastSeen, parked>>

AnyTimerFires == \E id \in 1..MaxCalls, reason \in Reasons : TimerFires(id, reason)

NextDebounce ==
    \/ \E reason \in Reasons : debouncedPlan(reason)
    \/ AnyTimerFires

\* a timer that stays pending fires
SpecDebounce == InitDebounce /\ [][NextDebounce]_vars /\ WF_vars(AnyTimerFires)

\* C21: the debouncedPlan calls made since the last pass leave exactly one
\* pending timer, the one of the last call; a timer that fires is that one and
\* starts the one pass of those calls; and a pending timer leads to its pass.
C21_DebounceCoalesces ==
    /\ [](/\ Cardinality(probe.pending) = IF probe.burst > 0 THEN 1 ELSE 0
          /\ \A t \in probe.pending : t.id = probe.made)
    /\ [][probe'.passes # probe.passes =>
             /\ probe.burst > 0
             /\ probe'.passes = probe.passes + 1
             /\ probe'.pending = {}]_vars
    /\ \A n \in 1..MaxCalls :
          (probe.made = n /\ probe.burst > 0) ~> (probe.burst = 0 \/ probe.made > n)

\* three calls were coalesced into one pass
C21_Witness ==
    /\ probe.fn = "debouncedPlan"
    /\ probe.made = 3
    /\ probe.passes = 1
    /\ probe.burst = 0

\* ------------------------------------------------------------------ Storage.setBranch alone
MaxWriters == 3
Writers == 1..MaxWriters

\* the Partial<BranchData> each caller writes: a scraped name, a color, a
\* display name, a color, ...
WriterData(c) ==
    IF c % 3 = 1 THEN [name |-> ScrapedName]
    ELSE IF c % 3 = 2 THEN [color |-> "blue"]
    ELSE [displayName |-> UserTitle]

\* {...existing, ...data, appId, versionId}
MergeBranch(existing, data) ==
    [f \in DOMAIN NoBranch |->
        IF f = "exists" THEN TRUE
        ELSE IF f \in DOMAIN data THEN data[f]
        ELSE existing[f]]

\* the two classes named Storage: the one of storage.ts writes at once, the
\* one of last-active-cache.ts waits for the write queued under the key
StorageBuilds == {"storage.ts", "last-active-cache.ts"}

\* seq numbers the calls in the order they were made
NoWriter == [pc |-> "idle", key |-> <<"", "">>, waits |-> 0, snap |-> <<>>, seq |-> 0]

\* No branch is stored; each caller is about to call setBranch for a branch.
InitBranchWrites ==
    /\ QuietHost
    /\ QuietStore
    /\ QuietEngine
    /\ tabIndex = <<>>
    /\ \E build \in StorageBuilds, keys \in [Writers -> {<<"acme", "dev">>, <<"acme", "test">>}] :
          probe = [fn |-> "setBranch", build |-> build,
                   writers |-> [c \in Writers |-> [NoWriter EXCEPT !.key = keys[c]]],
                   writeQueue |-> [b \in Branches |-> 0], made |-> 0]

\* setBranch(appId, versionId, data) is called: with a write queued under the
\* key the call awaits it, otherwise its own write starts and runs up to the
\* await of getBranches
setBranchCall(c) ==
    /\ probe.fn = "setBranch"
    /\ probe.writers[c].pc = "idle"
    /\ probe' = IF /\ probe.build = "last-active-cache.ts"
                   /\ probe.writeQueue[probe.writers[c].key] # 0
                THEN [probe EXCEPT !.writers[c].pc = "waiting",
                                   !.writers[c].waits = probe.writeQueue[probe.writers[c].key],
                                   !.writers[c].seq = probe.made + 1,
                                   !.made = @ + 1]
                ELSE [probe EXCEPT !.writers[c].pc = "reading",
                                   !.writers[c].seq = probe.made + 1,
                                   !.made = @ + 1,
                                   !.writeQueue[probe.writers[c].key] =
                                       IF probe.build = "last-active-cache.ts" THEN c ELSE @]
    /\ UNCHANGED <<hostVars, tabIndex, storeVars, engineVars, taskVars, histVars,
                   baseUrls, urlLastSeen, parked>>

\* getBranches returns the stored map
doSetBranchRead(c) ==
    /\ probe.fn = "setBranch"
    /\ probe.writers[c].pc = "reading"
    /\ probe' = [probe EXCEPT !.writers[c].pc = "writing", !.writers[c].snap = branches]
    /\ UNCHANGED <<hostVars, tabIndex, storeVars, engineVars, taskVars, histVars,
                   baseUrls, urlLastSeen, parked>>

\* chrome.storage.local.set({branches}) with the map read, the key merged
doSetBranchWrite(c) ==
    /\ probe.fn = "setBranch"
    /\ probe.writers[c].pc = "writing"
    /\ branches' = [probe.writers[c].snap EXCEPT ![probe.writers[c].key] =
                       MergeBranch(@, WriterData(c))]
    /\ probe' = [probe EXCEPT !.writers[c].pc = "written"]
    /\ UNCHANGED <<hostVars, tabIndex, groupMappings, extensionGroups, groupingEnabled,
                   engineVars, taskVars, histVars, baseUrls, urlLastSeen, parked>>

\* the calls awaiting the write of c
WaitersOf(c) == {w \in Writers : probe.writers[w].pc = "waiting" /\ probe.writers[w].waits = c}

\* the write of c settles.  setBranch returns; in the class of
\* last-active-cache.ts its finally block deletes the queue entry of the
\* key, and then every call that awaited the write starts its own write and
\* puts it in the queue, in the order the calls were made
setBranchReturn(c) ==
    /\ probe.fn = "setBranch"
    /\ probe.writers[c].pc = "written"
    /\ LET ws == WaitersOf(c)
           last == IF ws = {} THEN 0
                   ELSE CHOOSE w \in ws : \A v \in ws : probe.writers[v].seq <= probe.writers[w].seq
       IN probe' = [probe EXCEPT
                       !.writers = [w \in Writers |->
                                       IF w = c THEN [@[w] EXCEPT !.pc = "done"]
                                       ELSE IF w \in ws
                                       THEN [@[w] EXCEPT !.pc = "reading", !.waits = 0]
                                       ELSE @[w]],
                       !.writeQueue[probe.writers[c].key] =
                           IF probe.build = "last-active-cache.ts" THEN last ELSE @]
    /\ UNCHANGED <<hostVars, tabIndex, storeVars, engineVars, taskVars, histVars,
                   baseUrls, urlLastSeen, parked>>

NextBranchWrites ==
    \E c \in Writers :
        \/ setBranchCall(c)
        \/ doSetBranchRead(c)
        \/ doSetBranchWrite(c)
        \/ setBranchReturn(c)

SpecBranchWrites == InitBranchWrites /\ [][NextBranchWrites]_vars

\* the stored branch of the caller holds what the caller wrote
WriteStands(c) ==
    /\ branches[probe.writers[c].key].exists
    /\ \A f \in DOMAIN WriterData(c) : branches[probe.writers[c].key][f] = WriterData(c)[f]

AllWritersDone == \A c \in Writers : probe.writers[c].pc = "done"

\* C22: once overlapping setBranch calls for one branch have all completed,
\* the stored Branch Data holds the fields written by each of them.
C22_SameKeyWritesMerge ==
    (probe.fn = "setBranch" /\ AllWritersDone) =>
        \A c, d \in Writers :
            (c # d /\ probe.writers[c].key = probe.writers[d].key)
                => (WriteStands(c) /\ WriteStands(d))

\* C23: once two overlapping setBranch calls for different branches have
\* completed, the stored map holds the write of each.
C23_OtherKeyWritesStand ==
    probe.fn = "setBranch" =>
        \A c, d \in Writers :
            (/\ probe.writers[c].key # probe.writers[d].key
             /\ probe.writers[c].pc = "done"
             /\ probe.writers[d].pc = "done"
             /\ \A e \in Writers \ {c, d} : probe.writers[e].pc = "idle")
                => (WriteStands(c) /\ WriteStands(d))

\* ------------------------------------------------------------------ writers of one branch
MaxOps == 2
Ops == 1..MaxOps

\* the operations that read a branch and later write it back: the scrape
\* coordinator's updateBranchName, the engine's persistBranchColor of a
\* reserved or assigned color, and the user's rename and color change
OpKinds == {"updateBranchName", "persistBranchColor", "handleUserGroupRename",
            "handleUserGroupColorChange"}

\* the branch all of them are about, as the identity of its group
OpIdentity == [appId |-> "acme", versionId |-> "dev", windowId |-> MainWindow]
OpKey == <<"acme", "dev">>

\* updateBranchName(appId, versionId, branchName) on the branches it read:
\* {...branch, name}
updateBranchName(brs, appId, versionId, branchName) ==
    [brs EXCEPT ![<<appId, versionId>>] =
        [(IF @.exists THEN @ ELSE createDefaultBranch) EXCEPT !.name = branchName]]

\* what the operation of this kind makes of the branches it read
OpResult(k, brs) ==
    CASE k = "updateBranchName" -> updateBranchName(brs, "acme", "dev", ScrapedName)
      [] k = "persistBranchColor" -> persistBranchColor(brs, "acme", "dev", "green")
      [] k = "handleUserGroupRename" -> handleUserGroupRename(brs, OpIdentity, UserTitle)
      [] k = "handleUserGroupColorChange" -> handleUserGroupColorChange(brs, OpIdentity, "blue")

\* the operation returns without calling setBranch
OpSkips(k, brs) ==
    \/ k = "updateBranchName" /\ brs[OpKey].name = ScrapedName
    \/ /\ k = "handleUserGroupRename"
       /\ UserTitle = computeGroupTitle(MainWindow, "acme", "dev", FALSE, brs[OpKey])

\* The branch is stored, with or without a display name and a color; each
\* operation is about to start.  staleName / staleColor tell that a user
\* action stored a display name / a color after the operation read the branch.
InitBranchOps ==
    /\ QuietHost
    /\ QuietEngine
    /\ tabIndex = <<>>
    /\ groupMappings = [g \in GroupIds |-> NoMapping]
    /\ extensionGroups = {}
    /\ groupingEnabled = TRUE
    /\ baseUrls = <<>>
    /\ urlLastSeen = <<>>
    /\ \E d \in {<<>>, <<"Old">>}, c \in {"", "grey"} :
          branches = [b \in Branches |->
                         IF b = OpKey
                         THEN [createDefaultBranch EXCEPT !.displayName = d, !.color = c]
                         ELSE NoBranch]
    /\ \E ks \in [Ops -> OpKinds] :
          probe = [fn |-> "branchOps",
                   ops |-> [o \in Ops |-> [kind |-> ks[o], pc |-> "start", snap |-> <<>>,
                                           staleName |-> FALSE, staleColor |-> FALSE]]]

\* storage.getBranch returns
OpRead(o) ==
    /\ probe.fn = "branchOps"
    /\ probe.ops[o].pc = "start"
    /\ probe' = [probe EXCEPT !.ops[o].pc = "read", !.ops[o].snap = branches]
    /\ UNCHANGED <<hostVars, tabIndex, storeVars, engineVars, taskVars, histVars,
                   baseUrls, urlLastSeen, parked>>

\* storage.setBranch with the record made from the one read (or nothing, when
\* the operation returns early)
OpWrite(o) ==
    /\ probe.fn = "branchOps"
    /\ probe.ops[o].pc = "read"
    /\ LET k == probe.ops[o].kind
           snap == probe.ops[o].snap
           skips == OpSkips(k, snap)
           holding(p) == p # o /\ probe.ops[p].pc = "read"
       IN /\ branches' = IF skips THEN branches
                         ELSE [branches EXCEPT ![OpKey] = OpResult(k, snap)[OpKey]]
          /\ probe' = [probe EXCEPT
                          !.ops = [p \in Ops |->
                                     IF p = o THEN [@[p] EXCEPT !.pc = "done"]
                                     ELSE [@[p] EXCEPT
                                             !.staleName = @ \/ (/\ holding(p) /\ ~skips
                                                                 /\ k = "handleUserGroupRename"),
                                             !.staleColor = @ \/ (/\ holding(p) /\ ~skips
                                                                  /\ k = "handleUserGroupColorChange")]]]
    /\ UNCHANGED <<hostVars, tabIndex, groupMappings, extensionGroups, groupingEnabled,
                   engineVars, taskVars, histVars, baseUrls, urlLastSeen, parked>>

NextBranchOps == \E o \in Ops : OpRead(o) \/ OpWrite(o)

SpecBranchOps == InitBranchOps /\ [][NextBranchOps]_vars

MaxMarks == 3

\* the groups of the marker study and the branch each is mapped to
MarkedGroups == {1, 2}
MarkedVersion(g) == IF g = 1 THEN "test" ELSE "dev"

\* what the engine writes to a group with one chrome.tabGroups.update: the
\* initial title of findOrCreateGroup or a color
EngineUpdates(g) ==
    {[hasTitle |-> TRUE, title |-> <<MarkedVersion(g)>>, color |-> ""]} \cup
    {[hasTitle |-> FALSE, title |-> <<>>, color |-> c] : c \in {"blue", "green"}}

\* Two groups stand, each mapped to a stored branch without a color; no
\* marker is set.  probe.timers are the expiry timers scheduled by
\* markInternalOp and not yet fired, oldest first; probe.pending are the
\* group-updated events the host has not delivered yet; probe.last tells
\* about the event delivered last.
InitMarkers ==
    /\ tabUrl = [t \in TabIds |-> Closed]
    /\ tabWin = [t \in TabIds |-> MainWindow]
    /\ tabPinned = [t \in TabIds |-> FALSE]
    /\ tabGroup = [t \in TabIds |-> NoGroup]
    /\ groups = MarkedGroups
    /\ usedGroupIds = MarkedGroups
    /\ grpWin = [g \in GroupIds |-> IF g \in MarkedGroups THEN MainWindow ELSE 0]
    /\ grpTitle = [g \in GroupIds |-> <<>>]
    /\ grpColor = [g \in GroupIds |-> "grey"]
    /\ removedEvents = {}
    /\ QuietEngine
    /\ tabIndex = <<>>
    /\ groupMappings = [g \in GroupIds |->
                           IF g \in MarkedGroups
                           THEN [appId |-> "acme", versionId |-> MarkedVersion(g),
                                 windowId |-> MainWindow, fresh |-> TRUE]
                           ELSE NoMapping]
    /\ branches = [b \in Branches |->
                      IF \E g \in MarkedGroups : b = <<"acme", MarkedVersion(g)>>
                      THEN createDefaultBranch ELSE NoBranch]
    /\ extensionGroups = MarkedGroups
    /\ groupingEnabled = TRUE
    /\ baseUrls = <<>>
    /\ urlLastSeen = <<>>
    /\ probe = [fn |-> "markInternalOp", timers |-> <<>>, made |-> 0, pending |-> {},
                last |-> [gid |-> NoGroup, mark |-> 0, marked |-> FALSE]]

\* applyGroupUpdates(groupId, updates): markInternalOp(update-group-<g>), which
\* adds the marker and schedules its expiry, then chrome.tabGroups.update,
\* after which the host has a group-updated event to deliver
applyGroupUpdates(g, u) ==
    /\ probe.fn = "markInternalOp"
    /\ probe.made < MaxMarks
    /\ g \in groups
    /\ internalOps' = internalOps \cup {g}
    /\ grpTitle' = IF u.hasTitle THEN [grpTitle EXCEPT ![g] = u.title] ELSE grpTitle
    /\ grpColor' = IF u.color # "" THEN [grpColor EXCEPT ![g] = u.color] ELSE grpColor
    /\ probe' = [probe EXCEPT !.made = @ + 1,
                              !.timers = Append(@, [opId |-> g, mark |-> probe.made + 1]),
                              !.pending = @ \cup {[gid |-> g, mark |-> probe.made + 1]}]
    /\ UNCHANGED <<tabUrl, tabWin, tabPinned, tabGroup, groups, usedGroupIds, grpWin,
                   removedEvents, tabIndex, storeVars, manualHolds, debounceTimer,
                   pendingChange, taskVars, histVars, baseUrls, urlLastSeen, parked>>

\* the oldest expiry timer fires: internalOps.delete(opId)
MarkerTimeout ==
    /\ probe.fn = "markInternalOp"
    /\ probe.timers # <<>>
    /\ internalOps' = internalOps \ {Head(probe.timers).opId}
    /\ probe' = [probe EXCEPT !.timers = Tail(@)]
    /\ UNCHANGED <<hostVars, tabIndex, storeVars, manualHolds, debounceTimer,
                   pendingChange, taskVars, histVars, baseUrls, urlLastSeen, parked>>

\* the host delivers the group-updated event e of an engine write to the
\* chrome.tabGroups.onUpdated listener
EngineEventDelivered(e) ==
    /\ probe.fn = "markInternalOp"
    /\ e \in probe.pending
    /\ GroupUpdatedListener(e.gid, grpTitle[e.gid], grpColor[e.gid])
    /\ probe' = [probe EXCEPT !.pending = @ \ {e},
                              !.last = [gid |-> e.gid, mark |-> e.mark,
                                        marked |-> isInternalOp(e.gid)]]
    /\ UNCHANGED <<hostVars, tabIndex, extensionGroups, groupingEnabled, engineVars,
                   taskVars, histVars, baseUrls, urlLastSeen, parked>>

NextMarkers ==
    \/ \E g \in MarkedGroups : \E u \in EngineUpdates(g) : applyGroupUpdates(g, u)
    \/ MarkerTimeout
    \/ \E g \in MarkedGroups, n \in 1..MaxMarks :
          EngineEventDelivered([gid |-> g, mark |-> n])

SpecMarkers == InitMarkers /\ [][NextMarkers]_vars

\* C25: a group-updated event of an engine write that is delivered while the
\* marker update-group-<g> is present runs neither handleUserGroupRename nor
\* handleUserGroupColorChange: Branch Data and the group mappings stay as
\* they were.
C25_MarkedEventSkipped ==
    [][\A g \in MarkedGroups, n \in 1..MaxMarks :
          (EngineEventDelivered([gid |-> g, mark |-> n]) /\ g \in internalOps) =>
              (branches' = branches /\ groupMappings' = groupMappings)]_vars

\* an event of an engine write was delivered under the marker, and the group
\* shows a title and a color that Branch Data does not store
C25_Witness ==
    /\ probe.fn = "markInternalOp"
    /\ probe.last.gid \in MarkedGroups
    /\ probe.last.marked
    /\ grpTitle[probe.last.gid] # <<>>
    /\ grpColor[probe.last.gid] = "blue"
    /\ \A b \in Branches : branches[b].color = "" /\ branches[b].displayName = <<>>

\* C26: while the expiry timer scheduled by a markInternalOp(opId) call has
\* not fired, isInternalOp(opId) is true.
C26_MarkerOutlivesEarlierTimer ==
    probe.fn = "markInternalOp" =>
        \A i \in 1..Len(probe.timers) : isInternalOp(probe.timers[i].opId)

\* C27: when no user ever edits the title of a group (the user only recolors
\* groups), no branch ever gets a displayName.
C27_NoDisplayNameWithoutRename ==
    \A b \in Branches : branches[b].displayName = <<>>

\* ------------------------------------------------------------------ moves by the engine
\* the host calls of the engine that put tabs into a group
GroupingCalls == {c \in calls : c.by \in {"create", "move", "change"}}

\* chrome.tabs.onMoved for a tab the engine has put into a group with
\* chrome.tabs.group (the host moved it next to the tabs of the group): the
\* listener looks the tab up in the registry and calls handleManualTabMove
EngineMovedEvent(t) ==
    /\ events < MaxEvents
    /\ tabUrl[t] # Closed
    /\ tabGroup[t] # NoGroup
    /\ \E c \in GroupingCalls : t \in c.tabs
    /\ manualHolds' = IF getIdentity(t) # NoEntry
                      THEN [manualHolds EXCEPT ![t] =
                               [appId |-> getIdentity(t).appId,
                                versionId |-> getIdentity(t).versionId]]
                      ELSE manualHolds
    /\ obs' = Disturb(obs)
    /\ events' = events + 1
    /\ UNCHANGED <<hostVars, tabIndex, storeVars, internalOps, debounceTimer,
                   pendingChange, taskVars, calls, home>>
    /\ UNCHANGED auxVars

\* Tabs navigate and no user drags a tab; the host reports the moves the
\* engine's own chrome.tabs.group calls cause.
NextMoves ==
    \/ \E t \in TabIds, url \in Urls : TabUpdated(t, url)
    \/ \E t \in TabIds : EngineMovedEvent(t)
    \/ Engine

SpecMoves == Init /\ [][NextMoves]_vars

\* C28: when no user moves a tab, no tab ever has a manual hold: the
\* tab-moved events of the engine's own chrome.tabs.group calls create none.
C28_NoHoldForEngineMove ==
    \A t \in TabIds : manualHolds[t] = NoHold

\* ------------------------------------------------------------------ grouping switched off
\* SET_GROUPING_ENABLED message, while no engine operation is under way:
\* storage.updateSettings({grouping: {enabled}}).  The pass the handler starts
\* after enabling is a PlanStart(FALSE) step.
SetGroupingEnabled(enabled) ==
    /\ pc = "idle"
    /\ parked = NoTask
    /\ \A t \in TabIds : pendingChange[t] = NoHold
    /\ groupingEnabled # enabled
    /\ groupingEnabled' = enabled
    /\ obs' = Step(obs)
    /\ UNCHANGED <<hostVars, tabIndex, groupMappings, branches, extensionGroups, engineVars,
                   taskVars, calls, events, home>>
    /\ UNCHANGED auxVars

\* Tabs navigate; the user switches grouping off and on.
NextSwitch ==
    \/ \E t \in TabIds, url \in Urls : TabUpdated(t, url)
    \/ \E enabled \in BOOLEAN : SetGroupingEnabled(enabled)
    \/ Engine

SpecSwitch == Init /\ [][NextSwitch]_vars

\* C29: a step taken while the grouping-enabled flag is false issues no host
\* call that creates a group, moves a tab into a group or updates a group.
C29_NoMutationWhileDisabled ==
    [][~groupingEnabled => calls' \subseteq calls]_vars

\* ------------------------------------------------------------------ retryTabOperation
MaxOutcomes == 5
MaxRetries == 3

\* Error messages, as the phrases they are made of
EditDragMessage == <<"Tabs", "cannot be edited right now", "(", "user may be dragging", "a tab).">>
EditMessage == <<"Tabs", "cannot be edited right now", ".">>
DragMessage == <<"The", "user may be dragging", "a tab.">>
NoTabMessage == <<"No tab with id", "7", ".">>
ErrorMessages == {EditDragMessage, EditMessage, DragMessage, NoTabMessage}

\* what one call of the host operation does: it resolves or rejects with a message
Outcomes ==
    {[ok |-> TRUE, message |-> <<>>]} \cup {[ok |-> FALSE, message |-> m] : m \in ErrorMessages}

\* message.includes(phrase)
includes(message, phrase) == \E i \in 1..Len(message) : message[i] = phrase

\* a variant of isTabEditingRestriction below that takes every error for a
\* tab editing restriction
isTabEditingRestrictionAlways(message) == TRUE

\* isTabEditingRestriction, of lastError.message
isTabEditingRestriction(message) ==
    \/ includes(message, "cannot be edited right now")
    \/ includes(message, "user may be dragging")

\* retryTabOperation(operation) is called with maxRetries = 3; probe.script
\* tells what each call of the operation will do.
InitRetry ==
    /\ QuietHost
    /\ QuietStore
    /\ QuietEngine
    /\ tabIndex = <<>>
    /\ \E script \in [1..MaxOutcomes -> Outcomes] :
          probe = [fn |-> "retryTabOperation", script |-> script, attempt |-> 0, made |-> 0,
                   state |-> "calling", lastError |-> <<>>]

\* one turn of the loop: await operation(), and the catch block up to the delay
retryAttempt ==
    /\ probe.fn = "retryTabOperation"
    /\ probe.state = "calling"
    /\ probe.made < MaxOutcomes
    /\ LET o == probe.script[probe.made + 1]
       IN probe' = [probe EXCEPT
                       !.made = @ + 1,
                       !.lastError = IF o.ok THEN @ ELSE o.message,
                       !.state = IF o.ok THEN "returned"
                                 ELSE IF \/ ~isTabEditingRestriction(o.message)
                                         \/ probe.attempt = MaxRetries
                                      THEN "thrown"
                                      ELSE "waiting"]
    /\ UNCHANGED <<hostVars, tabIndex, storeVars, engineVars, taskVars, histVars,
                   baseUrls, urlLastSeen, parked>>

\* the backoff delay has passed: attempt++, the loop test, and the throw
\* after the loop
retryBackoff ==
    /\ probe.fn = "retryTabOperation"
    /\ probe.state = "waiting"
    /\ probe' = [probe EXCEPT !.attempt = @ + 1,
                              !.state = IF probe.attempt + 1 <= MaxRetries
                                        THEN "calling" ELSE "thrown"]
    /\ UNCHANGED <<hostVars, tabIndex, storeVars, engineVars, taskVars, histVars,
                   baseUrls, urlLastSeen, parked>>

NextRetry == retryAttempt \/ retryBackoff

SpecRetry == InitRetry /\ [][NextRetry]_vars /\ WF_vars(NextRetry)

\* the messages that mark the tab as not editable right now or being dragged
TransientMessages == {EditDragMessage, EditMessage, DragMessage}

\* C30: retryTabOperation calls the operation at most 4 times and ends: a
\* successful call makes it return at once; an error that is not a tab
\* editing restriction is rethrown at once; a tab editing restriction is
\* rethrown when it is the 4th failure and is followed by another call
\* otherwise.
C30_RetryBounded ==
    /\ [](probe.made <= 4)
    /\ [][probe'.made # probe.made =>
            LET o == probe.script[probe'.made]
            IN /\ probe'.made = probe.made + 1
               /\ o.ok => probe'.state = "returned"
               /\ (~o.ok /\ o.message \notin TransientMessages) =>
                     (probe'.state = "thrown" /\ probe'.lastError = o.message)
               /\ (~o.ok /\ o.message \in TransientMessages /\ probe'.made = 4) =>
                     (probe'.state = "thrown" /\ probe'.lastError = o.message)
               /\ (~o.ok /\ o.message \in TransientMessages /\ probe'.made < 4) =>
                     probe'.state = "waiting"]_vars
    /\ [][probe.state \in {"returned", "thrown"} => probe' = probe]_vars
    /\ (probe.state = "waiting") ~> (probe.state = "calling")
    /\ <>(probe.state \in {"returned", "thrown"})

\* the operation failed four times with a tab editing restriction and the
\* last of the four errors was rethrown
C30_Witness ==
    /\ probe.fn = "retryTabOperation"
    /\ probe.made = 4
    /\ probe.state = "thrown"
    /\ probe.lastError = probe.script[4].message
    /\ probe.script[3].message # probe.script[4].message
    /\ \A i \in 1..4 : probe.script[i].message \in TransientMessages

\* ------------------------------------------------------------------ failures in a pass
\* C31: a planning pass under way goes from each bucket to the next one,
\* whatever failed in it, and ends only after its last bucket, with the
\* sweep of cleanupEmptyGroups.
C31_FailureKeepsPassGoing ==
    [][(kind = "plan" /\ pc # "idle") =>
          IF pc' = "idle"
          THEN bi = Len(buckets) /\ obs'.doneNow
          ELSE /\ kind' = "plan"
               /\ buckets' # <<>>
               /\ Len(buckets') = Len(buckets)
               /\ bi' \in {bi, bi + 1}]_vars

\* a pass over two buckets has ended: the creation of the group of the first
\* bucket failed, and the tabs of the second bucket are in its group
C31_Witness ==
    /\ obs.doneNow
    /\ obs.failed
    /\ Len(buckets) = 2
    /\ buckets[1].gid = NoGroup
    /\ buckets[2].gid \in groups
    /\ \A i \in 1..Len(buckets[2].tabs) : tabGroup[buckets[2].tabs[i]] = buckets[2].gid

\* ------------------------------------------------------------------ color at creation
\* findOrCreateGroup finishes the creation of the group of the current bucket
CreationDone ==
    /\ pc = "created"
    /\ pc' = "move"
    /\ gid' = gid
    /\ gid \in groups

\* the colors the creation sends to the host
CreationColors == {c.color : c \in {d \in calls' \ calls : d.by = "create-color"}}

\* C32: when the creation of a group finishes, a color Branch Data holds for
\* the identity is the one sent to the host and stays stored, also for "test"
\* and "live"; without a stored color, "test" gets blue and "live" green,
\* sent and stored; otherwise no color is sent and none is stored.
C32_ColorAtCreation ==
    [][CreationDone =>
          LET key == <<buckets[bi].appId, buckets[bi].versionId>>
              stored == branches[key].color
              reserved == IF buckets[bi].versionId = "test" THEN "blue"
                          ELSE IF buckets[bi].versionId = "live" THEN "green" ELSE ""
          IN IF stored # ""
             THEN /\ CreationColors = {stored}
                  /\ grpColor'[gid] = stored
                  /\ branches'[key].color = stored
             ELSE IF reserved # ""
             THEN /\ CreationColors = {reserved}
                  /\ grpColor'[gid] = reserved
                  /\ branches'[key].color = reserved
             ELSE /\ CreationColors = {}
                  /\ grpColor'[gid] = grpColor[gid]
                  /\ branches'[key].color = ""]_vars

\* a group was created for "test" while Branch Data held another color than
\* blue for the branch: that color was sent, and a group of a version that is
\* not reserved exists as well
C32_Witness ==
    /\ \E c \in calls :
          /\ c.by = "create-color"
          /\ c.color # "blue"
          /\ c.gid \in groups
          /\ groupMappings[c.gid].versionId = "test"
          /\ grpColor[c.gid] = c.color
          /\ branches[<<"acme", "test">>].color = c.color
    /\ \E g \in groups : groupMappings[g].versionId = "dev"

\* ------------------------------------------------------------------ user colors
\* Planning passes run over tabs that stay where they are; the user recolors
\* groups.
NextColors ==
    \/ PlanStart(FALSE)
    \/ FindOrCreate
    \/ CreateFinish
    \/ MoveTabs
    \/ UpdateProps
    \/ \E g \in GroupIds, c \in Colors : UserEditGroup(g, grpTitle[g], c)
    \/ \E g \in GroupIds : ExpireInternalOp(g)

SpecColors == Init /\ [][NextColors]_vars

\* C33: when the listener hands the color of a group-updated event to
\* handleUserGroupColorChange and the group has an identity, that color
\* becomes the color stored for the branch of the group, whatever the version
\* and whatever color was stored or shown before.
C33_ObservedColorStored ==
    [][\A g \in GroupIds, c \in Colors :
          (/\ UserEditGroup(g, grpTitle[g], c)
           /\ ~isInternalOp(g)
           /\ getGroupIdentity(groupMappings, g).id # NoIdent) =>
              branches'[RenamedBranch(g)].color = c]_vars

\* Branch Data stores green for "test", the color the user gave its group
C33_Witness ==
    /\ events > 0
    /\ branches[<<"acme", "test">>].color = "green"
    /\ \E g \in groups :
          /\ groupMappings[g].versionId = "test"
          /\ grpColor[g] = "green"

\* ------------------------------------------------------------------ writers of the mapping store
MaxMapOps == 3
MapOps == 1..MaxMapOps

\* the group the host has removed, and the groups that still stand
RemovedGroup == 1
StandingGroups == GroupIds \ {RemovedGroup}

\* the calls that overlap with the removal: touchGroupMapping and
\* storeGroupMapping for groups that stand
OverlappingCalls ==
    {[kind |-> k, gid |-> g] : k \in {"touchGroupMapping", "storeGroupMapping"},
                               g \in StandingGroups}

\* what a call makes of the mappings it read with getAllMappings
MapResult(call, maps) ==
    CASE call.kind = "removeGroupMapping" -> removeGroupMapping(maps, call.gid)
      [] call.kind = "touchGroupMapping" -> touchGroupMapping(maps, call.gid)
      [] call.kind = "storeGroupMapping" ->
             storeGroupMapping(maps, call.gid, "acme", "dev", MainWindow)

\* the call writes the mappings back with chrome.storage.local.set
MapWrites(call, maps) ==
    \/ call.kind = "storeGroupMapping"
    \/ maps[call.gid] # NoMapping

\* The host has removed group 1, which is mapped and in the created-groups
\* list like the lowest standing group; handleGroupRemoval(1) is about to
\* run (operation 1), and so are calls for standing groups.
InitMapOps ==
    /\ tabUrl = [t \in TabIds |-> Closed]
    /\ tabWin = [t \in TabIds |-> MainWindow]
    /\ tabPinned = [t \in TabIds |-> FALSE]
    /\ tabGroup = [t \in TabIds |-> NoGroup]
    /\ groups = StandingGroups
    /\ usedGroupIds = GroupIds
    /\ grpWin = [g \in GroupIds |-> IF g \in StandingGroups THEN MainWindow ELSE 0]
    /\ grpTitle = [g \in GroupIds |-> <<>>]
    /\ grpColor = [g \in GroupIds |-> "grey"]
    /\ removedEvents = {}
    /\ QuietEngine
    /\ tabIndex = <<>>
    /\ groupMappings = [g \in GroupIds |->
                           IF g <= RemovedGroup + 1
                           THEN [appId |-> "acme", versionId |-> "test",
                                 windowId |-> MainWindow, fresh |-> FALSE]
                           ELSE NoMapping]
    /\ branches = [b \in Branches |-> NoBranch]
    /\ extensionGroups = {g \in GroupIds : g <= RemovedGroup + 1}
    /\ groupingEnabled = TRUE
    /\ baseUrls = <<>>
    /\ urlLastSeen = <<>>
    /\ \E cs \in [MapOps \ {1} -> OverlappingCalls] :
          probe = [fn |-> "groupMappings",
                   ops |-> [o \in MapOps |->
                              IF o = 1
                              THEN [kind |-> "removeGroupMapping", gid |-> RemovedGroup,
                                    pc |-> "list", snap |-> <<>>]
                              ELSE [kind |-> cs[o].kind, gid |-> cs[o].gid,
                                    pc |-> "start", snap |-> <<>>]]]

\* handleGroupRemoval: storage.removeExtensionGroup(groupId)
removeExtensionGroup(o) ==
    /\ probe.fn = "groupMappings"
    /\ probe.ops[o].pc = "list"
    /\ extensionGroups' = extensionGroups \ {probe.ops[o].gid}
    /\ probe' = [probe EXCEPT !.ops[o].pc = "start"]
    /\ UNCHANGED <<hostVars, tabIndex, groupMappings, branches, groupingEnabled, engineVars,
                   taskVars, histVars, baseUrls, urlLastSeen, parked>>

\* getAllMappings returns
getAllMappings(o) ==
    /\ probe.fn = "groupMappings"
    /\ probe.ops[o].pc = "start"
    /\ probe' = [probe EXCEPT !.ops[o].pc = "read", !.ops[o].snap = groupMappings]
    /\ UNCHANGED <<hostVars, tabIndex, storeVars, engineVars, taskVars, histVars,
                   baseUrls, urlLastSeen, parked>>

\* the rest of the call: chrome.storage.local.set of the changed mappings
setMappings(o) ==
    /\ probe.fn = "groupMappings"
    /\ probe.ops[o].pc = "read"
    /\ groupMappings' = IF MapWrites(probe.ops[o], probe.ops[o].snap)
                        THEN MapResult(probe.ops[o], probe.ops[o].snap)
                        ELSE groupMappings
    /\ probe' = [probe EXCEPT !.ops[o].pc = "done"]
    /\ UNCHANGED <<hostVars, tabIndex, branches, extensionGroups, groupingEnabled,
                   engineVars, taskVars, histVars, baseUrls, urlLastSeen, parked>>

NextMapOps == \E o \in MapOps : removeExtensionGroup(o) \/ getAllMappings(o) \/ setMappings(o)

SpecMapOps == InitMapOps /\ [][NextMapOps]_vars

\* C34: once handleGroupRemoval for the removed group has completed, the
\* group has no mapping and is not in the created-groups list, whatever
\* calls for other groups overlap with it.
C34_RemovedMappingStaysAbsent ==
    (probe.fn = "groupMappings" /\ probe.ops[1].pc = "done") =>
        /\ groupMappings[RemovedGroup] = NoMapping
        /\ RemovedGroup \notin extensionGroups

\* ------------------------------------------------------------------ cleanupStaleGroups
\* the staleness horizon, in milliseconds
MAX_AGE_MS == 86400000

\* the ages of the mappings at the cleanup, in milliseconds: none, 23 hours,
\* 24 hours, 24 hours and a millisecond, 25 hours
MappingAges == {0, 82800000, 86400000, 86400001, 90000000}

\* no mapping under a key
NoTimedMapping == [appId |-> "", versionId |-> "", windowId |-> 0, lastSeen |-> 0]

\* a variant of isTooOld below that takes a mapping of exactly the horizon's
\* age for too old
isTooOldAtHorizon(now, lastSeen) == (now - lastSeen) >= MAX_AGE_MS

\* isTooOld of a mapping
isTooOld(now, lastSeen) == (now - lastSeen) > MAX_AGE_MS

\* cleanedMappings, as cleanupStaleGroups builds it from the stored mappings
\* and the ids of the groups chrome.tabGroups.query returned
cleanedMappings(mappings, existingGroupIds, now) ==
    [g \in GroupIds |->
        IF /\ mappings[g] # NoTimedMapping
           /\ g \in existingGroupIds
           /\ ~isTooOld(now, mappings[g].lastSeen)
        THEN mappings[g] ELSE NoTimedMapping]

\* cleanupStaleGroups is about to run at time now over any stored mappings
\* and any set of live groups.
InitCleanup ==
    /\ QuietHost
    /\ QuietStore
    /\ QuietEngine
    /\ tabIndex = <<>>
    /\ \E now \in {100000000} :
       \E existing \in SUBSET GroupIds :
       \E ages \in [GroupIds -> MappingAges \cup {-1}] :
          probe = [fn |-> "cleanupStaleGroups", now |-> now, existing |-> existing,
                   mappings |-> [g \in GroupIds |->
                                   IF ages[g] = -1 THEN NoTimedMapping
                                   ELSE [appId |-> "acme", versionId |-> "dev",
                                         windowId |-> MainWindow, lastSeen |-> now - ages[g]]],
                   stored |-> <<>>, done |-> FALSE]

\* cleanupStaleGroups(): the mappings in store afterwards (written only when
\* something was dropped)
CleanupStaleGroups ==
    /\ probe.fn = "cleanupStaleGroups"
    /\ ~probe.done
    /\ LET cleaned == cleanedMappings(probe.mappings, probe.existing, probe.now)
           cleanedCount == Cardinality({g \in GroupIds :
                                          /\ probe.mappings[g] # NoTimedMapping
                                          /\ cleaned[g] = NoTimedMapping})
       IN probe' = [probe EXCEPT !.done = TRUE,
                                 !.stored = IF cleanedCount > 0 THEN cleaned
                                            ELSE probe.mappings]
    /\ UNCHANGED <<hostVars, tabIndex, storeVars, engineVars, taskVars, histVars,
                   baseUrls, urlLastSeen, parked>>

NextCleanup == CleanupStaleGroups

SpecCleanup == InitCleanup /\ [][NextCleanup]_vars

\* C35: after cleanupStaleGroups the store holds, unchanged, exactly the
\* mappings whose group exists and whose lastSeen is at most 24 hours old.
C35_CleanupKeepsLiveAndRecent ==
    (probe.fn = "cleanupStaleGroups" /\ probe.done) =>
        \A g \in GroupIds :
            probe.stored[g] =
                IF /\ probe.mappings[g] # NoTimedMapping
                   /\ g \in probe.existing
                   /\ probe.now - probe.mappings[g].lastSeen <= 24 * 60 * 60 * 1000
                THEN probe.mappings[g] ELSE NoTimedMapping

\* a cleanup kept a mapping that was exactly 24 hours old, dropped one a
\* millisecond older whose group exists, and dropped a recent one whose group
\* is gone
C35_Witness ==
    /\ probe.fn = "cleanupStaleGroups"
    /\ probe.done
    /\ \E g \in probe.existing :
          /\ probe.now - probe.mappings[g].lastSeen = 86400000
          /\ probe.stored[g] = probe.mappings[g]
          /\ probe.stored[g] # NoTimedMapping
    /\ \E g \in probe.existing :
          /\ probe.now - probe.mappings[g].lastSeen = 86400001
          /\ probe.stored[g] = NoTimedMapping
    /\ \E g \in GroupIds \ probe.existing :
          /\ probe.mappings[g] # NoTimedMapping
          /\ probe.now - probe.mappings[g].lastSeen = 0
          /\ probe.stored[g] = NoTimedMapping

\* ------------------------------------------------------------------ majority vote
MaxVotes == 4

\* the identities of member tabs a vote is taken over
Votes == {[appId |-> "acme", versionId |-> v, windowId |-> w] :
             v \in {"dev", "test", "live"}, w \in Windows}
VoteLists == UNION {[1..n -> Votes] : n \in 0..MaxVotes}

\* the group that is resolved
VotedGroup == 1

\* Either findMajorityIdentity is about to be applied to a list of identities,
\* or the browser holds one group the user made of some of its tabs, mapped
\* or not, and getGroupIdentity and findGroupByIdentity are about to look at it.
InitMajority ==
    /\ QuietEngine
    /\ tabWin = [t \in TabIds |-> MainWindow]
    /\ tabPinned = [t \in TabIds |-> FALSE]
    /\ usedGroupIds = {}
    /\ removedEvents = {}
    /\ grpTitle = [g \in GroupIds |-> <<>>]
    /\ grpColor = [g \in GroupIds |-> "grey"]
    /\ extensionGroups = {}
    /\ groupingEnabled = TRUE
    /\ \/ /\ tabUrl = [t \in TabIds |-> Closed]
          /\ tabGroup = [t \in TabIds |-> NoGroup]
          /\ groups = {}
          /\ grpWin = [g \in GroupIds |-> 0]
          /\ tabIndex = <<>>
          /\ branches = [b \in Branches |-> NoBranch]
          /\ baseUrls = <<>>
          /\ urlLastSeen = <<>>
          /\ groupMappings = [g \in GroupIds |-> NoMapping]
          /\ \E ids \in VoteLists :
                probe = [fn |-> "findMajorityIdentity", identities |-> ids,
                         result |-> NoIdent, done |-> FALSE]
       \/ /\ tabUrl \in Showing(Urls)
          /\ \E members \in (SUBSET {t \in EarlyTabs : tabUrl[t] # Closed}) \ {{}} :
                tabGroup = [t \in TabIds |-> IF t \in members THEN VotedGroup ELSE NoGroup]
          /\ groups = {VotedGroup}
          /\ grpWin = [g \in GroupIds |-> IF g = VotedGroup THEN MainWindow ELSE 0]
          /\ tabIndex = scanExistingTabs(tabUrl, [b \in Branches |-> NoBranch]).index
          /\ branches = scanExistingTabs(tabUrl, [b \in Branches |-> NoBranch]).branches
          /\ baseUrls = scanExistingTabs(tabUrl, [b \in Branches |-> NoBranch]).baseUrls
          /\ urlLastSeen = scanExistingTabs(tabUrl, [b \in Branches |-> NoBranch]).urlLastSeen
          /\ \E m \in {NoMapping, [appId |-> "acme", versionId |-> "live",
                                    windowId |-> MainWindow, fresh |-> TRUE]} :
                /\ groupMappings = [g \in GroupIds |-> IF g = VotedGroup THEN m ELSE NoMapping]
                /\ probe = [fn |-> "getGroupIdentity", mapped |-> m # NoMapping,
                            resolved |-> NoIdent, found |-> {}, done |-> FALSE]

\* findMajorityIdentity(identities)
VoteMajority ==
    /\ probe.fn = "findMajorityIdentity"
    /\ ~probe.done
    /\ probe' = [probe EXCEPT !.result = findMajorityIdentity(probe.identities),
                              !.done = TRUE]
    /\ UNCHANGED <<hostVars, tabIndex, storeVars, engineVars, taskVars, histVars,
                   baseUrls, urlLastSeen, parked>>

\* getGroupIdentity(groupId) for the group, and what findGroupByIdentity
\* returns for every identity in the same state
ResolveGroup ==
    /\ probe.fn = "getGroupIdentity"
    /\ ~probe.done
    /\ groupMappings' = getGroupIdentity(groupMappings, VotedGroup).maps
    /\ probe' = [probe EXCEPT
                    !.resolved = getGroupIdentity(groupMappings, VotedGroup).id,
                    !.found = {findGroupByIdentity(groupMappings, MainWindow, b[1], b[2]).gid :
                                  b \in Branches},
                    !.done = TRUE]
    /\ UNCHANGED <<hostVars, tabIndex, branches, extensionGroups, groupingEnabled,
                   engineVars, taskVars, histVars, baseUrls, urlLastSeen, parked>>

NextMajority == VoteMajority \/ ResolveGroup

SpecMajority == InitMajority /\ [][NextMajority]_vars

\* how often the key of identity x occurs in the list, and where first
VoteCount(ids, x) ==
    Cardinality({i \in 1..Len(ids) : ids[i].appId = x.appId /\ ids[i].versionId = x.versionId})
VoteFirst(ids, x) ==
    CHOOSE i \in 1..Len(ids) :
        /\ ids[i].appId = x.appId /\ ids[i].versionId = x.versionId
        /\ \A j \in 1..(i - 1) : ~(ids[j].appId = x.appId /\ ids[j].versionId = x.versionId)

\* C36: the vote over an empty list gives no identity; otherwise it gives an
\* (appId, versionId) of the list that no other occurs more often than, and
\* that was seen before every other one occurring as often.  A group without
\* a member in the registry and without a stored mapping resolves to no
\* identity, and no lookup returns it.
C36_MajorityVote ==
    /\ (probe.fn = "findMajorityIdentity" /\ probe.done) =>
          IF probe.identities = <<>> THEN probe.result = NoIdent
          ELSE /\ \E i \in 1..Len(probe.identities) :
                     /\ probe.identities[i].appId = probe.result.appId
                     /\ probe.identities[i].versionId = probe.result.versionId
               /\ \A i \in 1..Len(probe.identities) :
                     LET x == probe.identities[i]
                         n == VoteCount(probe.identities, x)
                         r == VoteCount(probe.identities, probe.result)
                     IN \/ n < r
                        \/ /\ n = r
                           /\ VoteFirst(probe.identities, probe.result) <=
                                  VoteFirst(probe.identities, x)
    /\ (/\ probe.fn = "getGroupIdentity"
        /\ probe.done
        /\ ~probe.mapped
        /\ \A t \in TabIds : tabGroup[t] = VotedGroup => getIdentity(t) = NoEntry) =>
          (probe.resolved = NoIdent /\ VotedGroup \notin probe.found)

\* a vote over four identities ended in a tie and gave the one seen first,
\* which is not the one seen last
C36_Witness ==
    /\ probe.fn = "findMajorityIdentity"
    /\ probe.done
    /\ Len(probe.identities) = 4
    /\ VoteCount(probe.identities, probe.result) = 2
    /\ VoteCount(probe.identities, probe.identities[4]) = 2
    /\ probe.identities[4].versionId # probe.result.versionId
    /\ probe.identities[1].versionId = probe.result.versionId

\* ------------------------------------------------------------------ titles and windows
\* the registries of two windows: one or two tabs, each in either window and
\* of either app
TitleWindowRegistries ==
    {<<[tabId |-> 1, windowId |-> w, appId |-> a, versionId |-> "dev", type |-> "editor"]>> :
        w \in Windows, a \in TitleApps} \cup
    {<<[tabId |-> 1, windowId |-> w1, appId |-> a1, versionId |-> "dev", type |-> "editor"],
       [tabId |-> 2, windowId |-> w2, appId |-> a2, versionId |-> "dev", type |-> "editor"]>> :
        w1 \in Windows, w2 \in Windows, a1 \in TitleApps, a2 \in TitleApps}

\* computeGroupTitle is about to be called for a bucket of the main window
\* while the registry holds tabs in either window
InitTitleWindows ==
    /\ QuietHost
    /\ QuietStore
    /\ QuietEngine
    /\ tabIndex \in TitleWindowRegistries
    /\ probe \in [fn : {"computeGroupTitle"}, appId : TitleApps, versionId : TitleVersionIds,
                  includeDisplayName : BOOLEAN, branch : TitleBranches,
                  done : {FALSE}, out : {<<>>}]

SpecTitleWindows == InitTitleWindows /\ [][ComputeTitle]_vars

\* the registry holds tabs of more than one app in the main window
MainWindowMultiApp ==
    \E e, f \in Range(tabIndex) :
        e.windowId = MainWindow /\ f.windowId = MainWindow /\ e.appId # f.appId

\* C37: the title computed for a branch without displayName ends in
\* "| <appId>" exactly when the registry holds tabs of more than one app in
\* the window of the group, and is one label otherwise; a title that is the
\* displayName is the displayName alone.
C37_AppSuffixIffMultiApp ==
    (probe.fn = "computeGroupTitle" /\ probe.done) =>
        /\ probe.branch.displayName = <<>> =>
              IF MainWindowMultiApp
              THEN /\ Len(probe.out) = 3
                   /\ probe.out[2] = "|"
                   /\ probe.out[3] = probe.appId
                   /\ probe.out[1] \notin {"|", probe.appId}
              ELSE /\ Len(probe.out) = 1
                   /\ probe.out[1] # "|"
        /\ (probe.includeDisplayName /\ probe.branch.displayName # <<>>) =>
              probe.out = probe.branch.displayName

\* the registry holds a tab of each app, in different windows, and the title
\* computed for the main window is the label alone
C37_Witness ==
    /\ probe.fn = "computeGroupTitle"
    /\ probe.done
    /\ probe.branch.displayName = <<>>
    /\ Cardinality({e.appId : e \in Range(tabIndex)}) = 2
    /\ \E e \in Range(tabIndex) : e.windowId = MainWindow
    /\ ~MainWindowMultiApp
    /\ Len(probe.out) = 1

\* ------------------------------------------------------------------ the two indexes of the registry
\* GroupRegistry as the code keeps it: tabIndex maps a tab to its entry, and
\* tabsByIdentity is a Map of window maps of app maps of version sets.  The
\* containers are kept apart from their content: windows, apps and versions
\* are the keys present at each level, members the tabs in the version sets.
RegistryApps == {"acme", "beta"}
RegistryVersions == {"dev", "test"}
NoRegistryEntry == [windowId |-> 0, appId |-> "", versionId |-> ""]
EmptyRegistry ==
    [tabIndex |-> [t \in TabIds |-> NoRegistryEntry],
     windows |-> {}, apps |-> {}, versions |-> {}, members |-> {}]

\* removeTab(tabId)
RegistryRemoveTab(reg, tabId) ==
    LET entry == reg.tabIndex[tabId]
        w == entry.windowId
        a == entry.appId
        v == entry.versionId
        found == w \in reg.windows /\ <<w, a>> \in reg.apps /\ <<w, a, v>> \in reg.versions
        members == IF found THEN reg.members \ {<<w, a, v, tabId>>} ELSE reg.members
        versionEmpty == found /\ ~\E m \in members : <<m[1], m[2], m[3]>> = <<w, a, v>>
        versions == IF versionEmpty THEN reg.versions \ {<<w, a, v>>} ELSE reg.versions
        appEmpty == versionEmpty /\ ~\E x \in versions : <<x[1], x[2]>> = <<w, a>>
        apps == IF appEmpty THEN reg.apps \ {<<w, a>>} ELSE reg.apps
        windowEmpty == appEmpty /\ ~\E x \in apps : x[1] = w
        windows == IF windowEmpty THEN reg.windows \ {w} ELSE reg.windows
    IN IF entry = NoRegistryEntry THEN reg
       ELSE [tabIndex |-> [reg.tabIndex EXCEPT ![tabId] = NoRegistryEntry],
             windows |-> windows, apps |-> apps, versions |-> versions, members |-> members]

\* the rest of setTabIdentity, after the old entry is out of the way
RegistryAdd(reg, tabId, windowId, appId, versionId) ==
    [tabIndex |-> [reg.tabIndex EXCEPT ![tabId] =
                      [windowId |-> windowId, appId |-> appId, versionId |-> versionId]],
     windows |-> reg.windows \cup {windowId},
     apps |-> reg.apps \cup {<<windowId, appId>>},
     versions |-> reg.versions \cup {<<windowId, appId, versionId>>},
     members |-> reg.members \cup {<<windowId, appId, versionId, tabId>>}]

\* a variant of setTabIdentity below that leaves the old entry in place
RegistrySetTabIdentityKeep(reg, tabId, windowId, appId, versionId) ==
    RegistryAdd(reg, tabId, windowId, appId, versionId)

\* setTabIdentity(tabId, windowId, identity, url)
RegistrySetTabIdentity(reg, tabId, windowId, appId, versionId) ==
    RegistryAdd(RegistryRemoveTab(reg, tabId), tabId, windowId, appId, versionId)

\* clear()
RegistryClear(reg) == EmptyRegistry

\* The registry is empty.
InitRegistryIndex ==
    /\ QuietHost
    /\ QuietStore
    /\ QuietEngine
    /\ tabIndex = <<>>
    /\ probe = [fn |-> "GroupRegistry", reg |-> EmptyRegistry,
                last |-> [op |-> "none", tabId |-> 0, old |-> NoRegistryEntry]]

CallSetTabIdentity(tabId, windowId, appId, versionId) ==
    /\ probe.fn = "GroupRegistry"
    /\ probe' = [probe EXCEPT
                    !.reg = RegistrySetTabIdentity(@, tabId, windowId, appId, versionId),
                    !.last = [op |-> "setTabIdentity", tabId |-> tabId,
                              old |-> probe.reg.tabIndex[tabId]]]
    /\ UNCHANGED <<hostVars, tabIndex, storeVars, engineVars, taskVars, histVars,
                   baseUrls, urlLastSeen, parked>>

CallRemoveTab(tabId) ==
    /\ probe.fn = "GroupRegistry"
    /\ probe' = [probe EXCEPT
                    !.reg = RegistryRemoveTab(@, tabId),
                    !.last = [op |-> "removeTab", tabId |-> tabId,
                              old |-> probe.reg.tabIndex[tabId]]]
    /\ UNCHANGED <<hostVars, tabIndex, storeVars, engineVars, taskVars, histVars,
                   baseUrls, urlLastSeen, parked>>

CallClear ==
    /\ probe.fn = "GroupRegistry"
    /\ probe' = [probe EXCEPT !.reg = RegistryClear(@),
                              !.last = [op |-> "clear", tabId |-> 0, old |-> NoRegistryEntry]]
    /\ UNCHANGED <<hostVars, tabIndex, storeVars, engineVars, taskVars, histVars,
                   baseUrls, urlLastSeen, parked>>

NextRegistryIndex ==
    \/ \E t \in TabIds, w \in Windows, a \in RegistryApps, v \in RegistryVersions :
          CallSetTabIdentity(t, w, a, v)
    \/ \E t \in TabIds : CallRemoveTab(t)
    \/ CallClear

SpecRegistryIndex == InitRegistryIndex /\ [][NextRegistryIndex]_vars

\* C38: every tab is a member of exactly the version set its entry names (of
\* none without an entry); every version set, app map and window map present
\* holds something, and the maps above a member are present; removeTab of a
\* tab without an entry leaves the registry as it was.
C38_RegistryIndexesAgree ==
    /\ [](probe.fn = "GroupRegistry" =>
            LET reg == probe.reg
            IN /\ \A t \in TabIds :
                     {m \in reg.members : m[4] = t} =
                        IF reg.tabIndex[t] = NoRegistryEntry THEN {}
                        ELSE {<<reg.tabIndex[t].windowId, reg.tabIndex[t].appId,
                                reg.tabIndex[t].versionId, t>>}
               /\ reg.versions = {<<m[1], m[2], m[3]>> : m \in reg.members}
               /\ reg.apps = {<<m[1], m[2]>> : m \in reg.members}
               /\ reg.windows = {m[1] : m \in reg.members})
    /\ [][(/\ probe'.last.op = "removeTab"
           /\ probe'.last.old = NoRegistryEntry) => probe'.reg = probe.reg]_vars

\* a tab has just moved from one window to the other while another tab keeps
\* its entry, and the window it left has no map any more
C38_Witness ==
    /\ probe.fn = "GroupRegistry"
    /\ probe.last.op = "setTabIdentity"
    /\ probe.last.old # NoRegistryEntry
    /\ probe.last.old.windowId # probe.reg.tabIndex[probe.last.tabId].windowId
    /\ probe.last.old.windowId \notin probe.reg.windows
    /\ \E t \in TabIds \ {probe.last.tabId} : probe.reg.tabIndex[t] # NoRegistryEntry

\* ------------------------------------------------------------------ initialize() under its three callers
\* The listeners that call initialize(): runtime.onInstalled,
\* runtime.onStartup and the worker's activate event.
InitCallers == {"onInstalled", "onStartup", "activate"}

\* The awaits of initialize(), in order; an invocation rests at one of them.
InitAwaits == <<"storage.initialize", "registerMainWorldScript", "scanExistingTabs",
                "recoverGroupMappings", "isGroupingEnabled", "planAndExecuteGrouping">>

\* No listener has fired; `initialized` is false.
InitInitialize ==
    /\ QuietHost
    /\ QuietEngine
    /\ tabIndex = <<>>
    /\ groupMappings = [g \in GroupIds |-> NoMapping]
    /\ branches = [b \in Branches |-> NoBranch]
    /\ extensionGroups = {}
    /\ groupingEnabled \in BOOLEAN
    /\ baseUrls = <<>>
    /\ urlLastSeen = <<>>
    /\ probe = [fn |-> "initialize", initialized |-> FALSE,
                at |-> [c \in InitCallers |-> "idle"],
                ran |-> [a \in Range(InitAwaits) |-> 0]]

\* the call an invocation issues next and rests at
initializeAwait(c, a) ==
    [probe EXCEPT !.at[c] = a, !.ran[a] = @ + 1]

\* initialize(), from the guard to the first await
initialize(c) ==
    /\ probe.fn = "initialize"
    /\ probe.at[c] = "idle"
    /\ probe' = IF probe.initialized THEN [probe EXCEPT !.at[c] = "returned"]
                ELSE initializeAwait(c, InitAwaits[1])
    /\ UNCHANGED <<hostVars, tabIndex, storeVars, engineVars, taskVars, histVars,
                   baseUrls, urlLastSeen, parked>>

\* initialize(), from one await to the next, and to `initialized = true`
initializeResume(c) ==
    /\ probe.fn = "initialize"
    /\ probe.at[c] \in Range(InitAwaits)
    /\ LET i == CHOOSE k \in 1..Len(InitAwaits) : InitAwaits[k] = probe.at[c]
           last == \/ i = Len(InitAwaits)
                   \/ i = Len(InitAwaits) - 1 /\ ~groupingEnabled
       IN probe' = IF last THEN [probe EXCEPT !.at[c] = "returned", !.initialized = TRUE]
                   ELSE initializeAwait(c, InitAwaits[i + 1])
    /\ UNCHANGED <<hostVars, tabIndex, storeVars, engineVars, taskVars, histVars,
                   baseUrls, urlLastSeen, parked>>

NextInitialize ==
    \/ \E c \in InitCallers : initialize(c)
    \/ \E c \in InitCallers : initializeResume(c)

SpecInitialize == InitInitialize /\ [][NextInitialize]_vars

\* C39: whatever the order in which the three listeners call initialize(),
\* the tab scan, the mapping recovery and the initial planning pass each run
\* at most once.
C39_BodyRunsOnce ==
    probe.fn = "initialize" =>
        /\ probe.ran["scanExistingTabs"] <= 1
        /\ probe.ran["recoverGroupMappings"] <= 1
        /\ probe.ran["planAndExecuteGrouping"] <= 1
====
